---- MODULE Spec2Model ----
(***************************************************************************)
(* A model of rust-synth: the voice synthesizer and its registry, the      *)
(* cooperative scheduler (Player) with its offline and live drivers, the   *)
(* beat-timing model and the Instrument sequencer.                         *)
(*                                                                         *)
(* The f64 values of the beat computations are IEEE 754 binary64 values,   *)
(* rounded as the hardware rounds them.  Clock values, waits and phases    *)
(* are exact rationals [n, d] (d > 0, lowest terms); the tempos of the     *)
(* scheduled programs give beat durations that convert to them exactly.    *)
(* u8 and usize values are integers within their ranges.                   *)
(***************************************************************************)
EXTENDS Integers, Sequences, FiniteSets, TLC

(***************************************************************************)
(* Thread-local state of the audio thread (player.rs), the Player, the     *)
(* futures it owns, the completion channel, the driver's position, and     *)
(* observation variables (pass, polled, spawned, log) that record what the *)
(* code did without influencing it.                                        *)
(***************************************************************************)
VARIABLES
    CURRENT_SAMPLE_RATE,  \* thread local: 0 models None
    CURRENT_TIME,         \* thread local: the clock, ms
    CURRENT_SYNTHS,       \* thread local: the SynthRegistry
    NEW_PROGRAMS,         \* thread local: futures registered by start_program
    player,               \* the Player struct
    futures,              \* every future ever boxed, by task id
    channel,              \* sync_channel(1) and the controller thread
    pc,                   \* position of the driver
    i,                    \* execute_programs' loop index
    num_samples,          \* generate_samples' local
    frames_left,          \* frames of the current hardware buffer not yet produced
    proxies,              \* AudioShapeProxy values alive outside the scheduler (registry clients)
    bc,                   \* a BeatCounter under test
    tracks,               \* a Tracks, the shapes it shares with a controller, their lock
    pass,                 \* observation: number of scheduling passes started
    polled,               \* observation: task ids polled in the current pass, in order
    spawned,              \* observation: task ids registered in the current pass, in order
    log,                  \* observation: what tasks did to voices and waiters
    last_op               \* observation: the operation the last step performed

vars == <<CURRENT_SAMPLE_RATE, CURRENT_TIME, CURRENT_SYNTHS, NEW_PROGRAMS, player,
          futures, channel, pc, i, num_samples, frames_left, proxies, bc,
          tracks, pass, polled, spawned, log, last_op>>

(***************************************************************************)
(* f64 arithmetic, exact: clock values, waits and phases.                  *)
(***************************************************************************)
Abs(x) == IF x < 0 THEN -x ELSE x

RECURSIVE Gcd(_, _)
Gcd(a, b) == IF b = 0 THEN a ELSE Gcd(b, a % b)

\* n/d in lowest terms with a positive denominator (d # 0).
Rat(n, d) ==
    LET s == IF d < 0 THEN -1 ELSE 1
        g == Gcd(Abs(n), Abs(d))
    IN  [n |-> (s * n) \div g, d |-> (s * d) \div g]

\* `k as f64`
Q(k) == [n |-> k, d |-> 1]

QAdd(a, b) == Rat(a.n * b.d + b.n * a.d, a.d * b.d)
QNeg(a) == [n |-> -a.n, d |-> a.d]
QSub(a, b) == QAdd(a, QNeg(b))
\* cross-reduced first, so that intermediate products stay small
QMul(a, b) ==
    LET g1 == Gcd(Abs(a.n), b.d)
        g2 == Gcd(Abs(b.n), a.d)
    IN  [n |-> (a.n \div g1) * (b.n \div g2), d |-> (a.d \div g2) * (b.d \div g1)]
\* a / b for b # 0
QDiv(a, b) == QMul(a, Rat(b.d, b.n))
QLt(a, b) == a.n * b.d < b.n * a.d
QGe(a, b) == ~QLt(a, b)
QGt(a, b) == QLt(b, a)
\* truncation toward zero
Trunc(a) == IF a.n >= 0 THEN a.n \div a.d ELSE -((-a.n) \div a.d)
\* f64::fract, and `x % 1.0`: the remainder has the sign of x
fract(a) == QSub(a, Q(Trunc(a)))

U8_MAX == 255

Pow2(k) == 2 ^ k

(***************************************************************************)
(* f64 arithmetic, rounded.  The beat computations (beat.rs) divide by     *)
(* tempos and multiply the quotients, which rounds; they are computed here *)
(* as IEEE 754 binary64 does, round to nearest, ties to even.  A finite    *)
(* non-negative f64 is [m, e], the value m * 2^e with 2^52 <= m < 2^53, or *)
(* m = 0; m is a natural number in base 2^12, least significant limb       *)
(* first, without leading zero limbs (<< >> is 0).                         *)
(***************************************************************************)
LimbBits == 12
Limb == Pow2(LimbBits)
MantissaBits == 53

\* a without its leading zero limbs
BigNorm(a) ==
    LET nonzero == {j \in DOMAIN a : a[j] # 0}
    IN  IF nonzero = {}
        THEN << >>
        ELSE SubSeq(a, 1, CHOOSE j \in nonzero : \A h \in nonzero : h <= j)

RECURSIVE BigOfInt(_)
BigOfInt(k) == IF k = 0 THEN << >> ELSE <<k % Limb>> \o BigOfInt(k \div Limb)

RECURSIVE BigToInt(_)
BigToInt(a) == IF a = << >> THEN 0 ELSE Head(a) + Limb * BigToInt(Tail(a))

\* limb j of a, 0 outside it
LimbAt(a, j) == IF 1 <= j /\ j <= Len(a) THEN a[j] ELSE 0

\* a + b + c, limb by limb with the carry
BigAddCarry(a, b, c) ==
    LET n == IF Len(a) > Len(b) THEN Len(a) ELSE Len(b)
        carry[j \in 1..(n + 1)] ==
            IF j = 1
            THEN c
            ELSE (LimbAt(a, j - 1) + LimbAt(b, j - 1) + carry[j - 1]) \div Limb
    IN  [j \in 1..n |-> (LimbAt(a, j) + LimbAt(b, j) + carry[j]) % Limb]
        \o BigOfInt(carry[n + 1])

BigAdd(a, b) == BigAddCarry(a, b, 0)

\* a * k + c, for 0 < k < 2^18
BigMulSmall(a, k, c) ==
    LET n == Len(a)
        carry[j \in 1..(n + 1)] ==
            IF j = 1 THEN c ELSE (a[j - 1] * k + carry[j - 1]) \div Limb
    IN  [j \in 1..n |-> (a[j] * k + carry[j]) % Limb] \o BigOfInt(carry[n + 1])

\* a * 2^12
BigShiftLimb(a) == IF a = << >> THEN a ELSE <<0>> \o a

\* the sum of the limb products of a and b that fall in column j
BigColumn(a, b, j) ==
    LET partial[h \in 0..Len(a)] ==
            IF h = 0 THEN 0 ELSE partial[h - 1] + a[h] * LimbAt(b, j - h + 1)
    IN  partial[Len(a)]

\* a * b, column by column with the carry, for factors of fewer than 2^6 limbs
BigMul(a, b) ==
    LET n == Len(a) + Len(b)
        carry[j \in 1..(n + 1)] ==
            IF j = 1 THEN 0 ELSE (BigColumn(a, b, j - 1) + carry[j - 1]) \div Limb
    IN  IF a = << >> \/ b = << >>
        THEN << >>
        ELSE BigNorm([j \in 1..n |-> (BigColumn(a, b, j) + carry[j]) % Limb])

\* quotient (with leading zero limbs) and remainder of a / k, for 0 < k < 2^18
BigDivRem(a, k) ==
    LET n == Len(a)
        rem[j \in 1..(n + 1)] ==
            IF j = n + 1 THEN 0 ELSE (a[j] + Limb * rem[j + 1]) % k
    IN  IF a = << >>
        THEN [q |-> << >>, r |-> 0]
        ELSE [q |-> [j \in 1..n |-> (a[j] + Limb * rem[j + 1]) \div k], r |-> rem[1]]

\* the number of bits of k, for 0 <= k < 2^30
BitLen(k) ==
    IF k = 0
    THEN 0
    ELSE CHOOSE len \in 1..30 : Pow2(len - 1) <= k /\ k \div 2 < Pow2(len - 1)

BigBitLen(a) == IF a = << >> THEN 0 ELSE LimbBits * (Len(a) - 1) + BitLen(a[Len(a)])

BigIsOdd(a) == a # << >> /\ a[1] % 2 = 1

\* a * 2^s: whole limbs first, then the remaining bits
BigShl(a, s) ==
    IF a = << >>
    THEN a
    ELSE BigMulSmall([j \in 1..(s \div LimbBits) |-> 0] \o a, Pow2(s % LimbBits), 0)

\* a \div 2^s, and whether a nonzero bit was shifted out: whole limbs first,
\* then the remaining bits
BigShr(a, s, sticky) ==
    LET limbs == IF s \div LimbBits < Len(a) THEN s \div LimbBits ELSE Len(a)
        d == BigDivRem(SubSeq(a, limbs + 1, Len(a)), Pow2(s % LimbBits))
    IN  [q |-> BigNorm(d.q),
         sticky |-> sticky \/ d.r # 0 \/ \E j \in 1..limbs : a[j] # 0]

\* the number of trailing zero bits of a # 0
BigTrailingZeros(a) ==
    LET low == CHOOSE j \in DOMAIN a : a[j] # 0 /\ \A h \in 1..(j - 1) : a[h] = 0
    IN  LimbBits * (low - 1)
        + (CHOOSE t \in 0..(LimbBits - 1) : a[low] % Pow2(t + 1) = Pow2(t))

FZero == [m |-> << >>, e |-> 0]

\* the f64 with mantissa r and exponent e, renormalised when rounding up
\* carried into a 54th bit
FNormal(r, e) ==
    IF BigBitLen(r) > MantissaBits
    THEN [m |-> BigShr(r, 1, FALSE).q, e |-> e + 1]
    ELSE [m |-> r, e |-> e]

\* q rounded by the guard bit, the sticky bit and its own last bit
FTiesToEven(q, guard, sticky, e) ==
    FNormal(IF guard /\ (sticky \/ BigIsOdd(q)) THEN BigAdd(q, <<1>>) ELSE q, e)

\* d holds the mantissa with one guard bit, and the sticky bit
FGuarded(d, e) ==
    FTiesToEven(BigShr(d.q, 1, FALSE).q, BigIsOdd(d.q), d.sticky, e)

\* M of len bits, as an f64
FRoundLen(M, e, len) ==
    IF len <= MantissaBits
    THEN [m |-> BigShl(M, MantissaBits - len), e |-> e - (MantissaBits - len)]
    ELSE FGuarded(BigShr(M, len - MantissaBits - 1, FALSE), e + len - MantissaBits)

\* the f64 nearest to M * 2^e, ties to even
FRound(M, e) == IF M = << >> THEN FZero ELSE FRoundLen(M, e, BigBitLen(M))

\* `k as f64` for an integer k >= 0
FromInt(k) == FRound(BigOfInt(k), 0)

\* a * b
FMul(a, b) ==
    IF a.m = << >> \/ b.m = << >> THEN FZero ELSE FRound(BigMul(a.m, b.m), a.e + b.e)

\* a + b
FAdd(a, b) ==
    IF a.m = << >> THEN b
    ELSE IF b.m = << >> THEN a
    ELSE LET e == IF a.e < b.e THEN a.e ELSE b.e
         IN  FRound(BigAdd(BigShl(a.m, a.e - e), BigShl(b.m, b.e - e)), e)

\* a / (k as f64) for an integer 0 < k < 2^18: the quotient is computed to
\* 24 further bits, and a last bit records a nonzero remainder
FQuotient(d, e) ==
    FRound(BigAdd(BigShl(BigNorm(d.q), 1), IF d.r # 0 THEN <<1>> ELSE << >>), e)

FDiv(a, k) ==
    IF a.m = << >>
    THEN FZero
    ELSE FQuotient(BigDivRem(BigShl(a.m, 2 * LimbBits), k), a.e - 2 * LimbBits - 1)

\* the value of a as a rational, for values with short numerators
ToQOdd(a, tz) ==
    IF a.e + tz >= 0
    THEN Q(BigToInt(BigShr(a.m, tz, FALSE).q) * Pow2(a.e + tz))
    ELSE Rat(BigToInt(BigShr(a.m, tz, FALSE).q), Pow2(-(a.e + tz)))

ToQ(a) == IF a.m = << >> THEN Q(0) ELSE ToQOdd(a, BigTrailingZeros(a.m))

\* `a.fract() == 0.0`: a is a whole number
FIsWhole(a) == a.m = << >> \/ a.e >= 0 \/ BigTrailingZeros(a.m) >= -a.e

\* a <= b, for a and b without leading zero limbs
BigLe(a, b) ==
    IF Len(a) # Len(b)
    THEN Len(a) < Len(b)
    ELSE LET differ == {j \in DOMAIN a : a[j] # b[j]}
         IN  \/ differ = {}
             \/ LET top == CHOOSE j \in differ : \A h \in differ : h <= j
                IN  a[top] < b[top]

\* a <= p / q, for integers p and 0 < q < 2^18
FLeRat(a, p, q) ==
    IF a.m = << >> THEN p >= 0
    ELSE IF p < 0 THEN FALSE
    ELSE IF a.e >= 0
         THEN BigLe(BigMulSmall(BigShl(a.m, a.e), q, 0), BigOfInt(p))
         ELSE BigLe(BigMulSmall(a.m, q, 0), BigShl(BigOfInt(p), -a.e))

\* a = p / q exactly, for integers p >= 0 and 0 < q < 2^18
FEqRat(a, p, q) ==
    IF a.m = << >> THEN p = 0
    ELSE IF a.e >= 0
         THEN BigMulSmall(BigShl(a.m, a.e), q, 0) = BigOfInt(p)
         ELSE BigMulSmall(a.m, q, 0) = BigShl(BigOfInt(p), -a.e)

(***************************************************************************)
(* synth.rs: AudioShape and AudioShapeSynthesizer.                         *)
(* Frequencies are integer-valued.  The sample value next() returns is     *)
(* not modelled; the state change it makes is.                             *)
(***************************************************************************)
Waveforms == {"Sine", "Square", "Triangle", "Sawtooth"}

AudioShape(waveform, frequency, volume) ==
    [waveform |-> waveform, frequency |-> frequency, volume |-> volume]

DefaultAudioShape == AudioShape("Sine", 0, 0)

calculate_wave_delta_per_sample(sample_rate, frequency) ==
    IF frequency = 0
    THEN Q(0)
    ELSE LET samples_per_wave == QDiv(Q(sample_rate), Q(frequency))
         IN  QDiv(Q(1), samples_per_wave)

\* AudioShapeSynthesizer::new
NewSynth(target, sample_rate) ==
    [sample_rate |-> sample_rate,
     pos_in_wave |-> Q(0),
     volume |-> 0,
     target |-> target,
     wave_delta_per_sample |-> calculate_wave_delta_per_sample(sample_rate, target.frequency),
     is_active |-> TRUE]

make_inactive_KeepTarget(synth) == [synth EXCEPT !.is_active = FALSE]

make_inactive(synth) ==
    [synth EXCEPT !.is_active = FALSE, !.target.volume = 0]

has_finished_playing_NoVolumeCheck(synth) == ~synth.is_active

has_finished_playing(synth) == ~synth.is_active /\ synth.volume = 0

get_target(synth) == synth.target

update_target_ResetPhase(synth, target) ==
    [synth EXCEPT !.target = target,
                  !.pos_in_wave = Q(0),
                  !.wave_delta_per_sample =
                      calculate_wave_delta_per_sample(synth.sample_rate, target.frequency)]

update_target(synth, target) ==
    [synth EXCEPT !.target = target,
                  !.wave_delta_per_sample =
                      calculate_wave_delta_per_sample(synth.sample_rate, target.frequency)]

\* u8 arithmetic: `+= 1` and `-= 1` leave 0..255 only by overflowing, which
\* panics (debug) or wraps (release); the wrapped value is what is kept here.
move_to_target_volume_Jump(synth) == [synth EXCEPT !.volume = synth.target.volume]

move_to_target_volume(synth) ==
    LET target == synth.target.volume
    IN  IF synth.volume = target
        THEN synth
        ELSE IF synth.volume < target
             THEN [synth EXCEPT !.volume = (synth.volume + 1) % (U8_MAX + 1)]
             ELSE [synth EXCEPT !.volume = (synth.volume - 1) % (U8_MAX + 1)]

\* Iterator::next for AudioShapeSynthesizer
SynthNext(synth) ==
    move_to_target_volume(
        [synth EXCEPT !.pos_in_wave =
            fract(QAdd(synth.pos_in_wave, synth.wave_delta_per_sample))])

(***************************************************************************)
(* synth_registry.rs: SynthRegistry.                                       *)
(***************************************************************************)
NewRegistry == [total_samples |-> 0, latest_id |-> 0, map |-> << >>]

Restrict(f, S) == [x \in S |-> f[x]]

remove_finished_synths(registry) ==
    [registry EXCEPT !.map =
        Restrict(registry.map,
                 {id \in DOMAIN registry.map : ~has_finished_playing(registry.map[id])})]

\* HashMap::entry(id).and_modify(f): nothing happens for an absent id
modify(registry, id, f(_)) ==
    IF id \in DOMAIN registry.map
    THEN [registry EXCEPT !.map[id] = f(registry.map[id])]
    ELSE registry

\* SynthRegistry::insert; the new id is registry.latest_id + 1
insert(registry, synth) ==
    LET id == registry.latest_id + 1
    IN  [registry EXCEPT !.latest_id = id,
                         !.map = [k \in DOMAIN registry.map \cup {id} |->
                                     IF k = id THEN synth ELSE registry.map[k]]]

get_total_samples(registry) == registry.total_samples

next_sample(registry) ==
    [registry EXCEPT !.map = [id \in DOMAIN registry.map |-> SynthNext(registry.map[id])],
                     !.total_samples = registry.total_samples + 1]

is_empty_NoActive(registry) == \A id \in DOMAIN registry.map : ~registry.map[id].is_active

is_empty(registry) == DOMAIN registry.map = {}

\* SynthRegistry::get_shape(&id) -> Option<AudioShape>, called by
\* AudioShapeProxy::clone and unwrapped there; defined for ids in the map.
get_shape(registry, id) == get_target(registry.map[id])

(***************************************************************************)
(* player.rs: AudioShapeProxy.  A proxy is its id.                         *)
(***************************************************************************)
\* AudioShapeProxy::new: the registry after the insert; the proxy's id is
\* the registry's new latest_id.
AudioShapeProxy_new(registry, shape, sample_rate) ==
    insert(registry, NewSynth(shape, sample_rate))

set_frequency(registry, id, frequency) ==
    modify(registry, id,
           LAMBDA synth : update_target(synth, [get_target(synth) EXCEPT !.frequency = frequency]))

set_volume(registry, id, volume) ==
    modify(registry, id,
           LAMBDA synth : update_target(synth, [get_target(synth) EXCEPT !.volume = volume]))

\* impl Clone for AudioShapeProxy
AudioShapeProxy_clone(registry, id, sample_rate) ==
    AudioShapeProxy_new(registry, get_shape(registry, id), sample_rate)

AudioShapeProxy_drop_Remove(registry, id) ==
    [registry EXCEPT !.map = Restrict(registry.map, DOMAIN registry.map \ {id})]

\* impl Drop for AudioShapeProxy
AudioShapeProxy_drop(registry, id) ==
    modify(registry, id, make_inactive)

(***************************************************************************)
(* tracks.rs: Tracks.  shapes is the slice behind Arc<Mutex<[AudioShape]>>,*)
(* locked tells whether the controller thread holds the mutex, synths is   *)
(* Tracks::synths.  skips is an observation: the try_to_update calls that  *)
(* found the mutex locked, counted up to a bound.                          *)
(***************************************************************************)
NoTracks == [shapes |-> << >>, locked |-> FALSE, synths |-> << >>, skips |-> 0]

\* Tracks::new
Tracks_new(shapes, sample_rate) ==
    [shapes |-> shapes,
     locked |-> FALSE,
     synths |-> [k \in DOMAIN shapes |-> NewSynth(shapes[k], sample_rate)],
     skips |-> 0]

try_lock_Lock(t) == IF t.locked THEN "Blocked" ELSE "Ok"

\* Mutex::try_lock on shapes_mutex, from the real-time path
try_lock(t) == IF t.locked THEN "WouldBlock" ELSE "Ok"

\* Tracks::try_to_update, once try_lock has returned
try_to_update(t, Skips) ==
    IF try_lock(t) = "Ok"
    THEN [t EXCEPT !.synths =
             [k \in DOMAIN t.synths |-> update_target(t.synths[k], t.shapes[k])]]
    ELSE [t EXCEPT !.skips = IF @ < Skips THEN @ + 1 ELSE @]

(***************************************************************************)
(* beat.rs: Beat, TimeSignature, BeatSettings, BeatCounter.                *)
(***************************************************************************)
Beats == {"Whole", "Half", "Quarter", "Eighth", "Sixteenth", "ThirtySecond", "SixtyFourth"}

divisor(beat) ==
    CASE beat = "Whole" -> 1
      [] beat = "Half" -> 2
      [] beat = "Quarter" -> 4
      [] beat = "Eighth" -> 8
      [] beat = "Sixteenth" -> 16
      [] beat = "ThirtySecond" -> 32
      [] beat = "SixtyFourth" -> 64

sixty_fourth_beats(beat) == 64 \div divisor(beat)

\* TimeSignature(pub u64, pub Beat)
THREE_FOUR == <<3, "Quarter">>
FOUR_FOUR == <<4, "Quarter">>

beats_per_measure(time_signature) == time_signature[1]
beat_unit(time_signature) == time_signature[2]

BeatSettings(bpm, time_signature) == [bpm |-> bpm, time_signature |-> time_signature]

\* `beat_unit_divisor as f64 / length_divisor as f64`
beats_in_duration(settings, length) ==
    LET beat_unit_divisor == divisor(beat_unit(settings.time_signature))
        length_divisor == divisor(length)
    IN  FDiv(FromInt(beat_unit_divisor), length_divisor)

duration_in_millis(settings, length) ==
    LET beats_per_second == FDiv(FromInt(60), settings.bpm)
        ms_per_beat == FMul(beats_per_second, FromInt(1000))
    IN  FMul(ms_per_beat, beats_in_duration(settings, length))

measure_in_millis(settings) ==
    FMul(duration_in_millis(settings, beat_unit(settings.time_signature)),
         FromInt(beats_per_measure(settings.time_signature)))

\* BeatCounter::new
NewBeatCounter(settings) == [settings |-> settings, sixty_fourth_beats |-> 0]

\* BeatCounter::increment: the counter afterwards; the call returns
\* duration_in_millis(counter.settings, length).
increment(counter, length) ==
    [counter EXCEPT !.sixty_fourth_beats =
        counter.sixty_fourth_beats + sixty_fourth_beats(length)]

total_beats(counter) ==
    FDiv(FromInt(counter.sixty_fourth_beats),
         sixty_fourth_beats(beat_unit(counter.settings.time_signature)))

total_measures(counter) ==
    FDiv(total_beats(counter), beats_per_measure(counter.settings.time_signature))

total_millis(counter) ==
    FMul(total_measures(counter), measure_in_millis(counter.settings))

(***************************************************************************)
(* note.rs: MidiNote.  frequency() is 440 * 2^((note - 69) / 12); the      *)
(* notes used are the A's, whose frequencies are integers.                 *)
(***************************************************************************)
A4_MIDI_NOTE == 69
A4_FREQUENCY == 440
SEMITONES_PER_OCTAVE == 12

MidiNote_frequency(note) ==
    LET semitones_from_a4 == note - A4_MIDI_NOTE
        octaves == Abs(semitones_from_a4) \div SEMITONES_PER_OCTAVE
    IN  IF semitones_from_a4 >= 0
        THEN A4_FREQUENCY * Pow2(octaves)
        ELSE A4_FREQUENCY \div Pow2(octaves)

\* i8 arithmetic: the sum wraps in a release build and panics in a debug
\* build; overflow records that the exact sum was out of range
I8_MIN == -128
I8_MAX == 127

Wrap8(x) == ((x - I8_MIN) % (I8_MAX - I8_MIN + 1)) + I8_MIN

\* impl ops::Add<Semitones> for MidiNote
MidiNote_add(note, semitones) ==
    [n |-> Wrap8(note.n + semitones),
     overflow |-> note.overflow \/ note.n + semitones < I8_MIN \/ note.n + semitones > I8_MAX]

Ok(n) == [ok |-> TRUE, note |-> n, error |-> "None"]
Err(error) == [ok |-> FALSE, note |-> 0, error |-> error]

\* the `match note`, `match accidental` and `match octave` tables
note_semitones_from_a ==
    [C |-> -9, D |-> -7, E |-> -5, F |-> -4, G |-> -2, A |-> 0, B |-> 2]

accidental_semitone_offset == ("#" :> 1) @@ ("b" :> -1) @@ ("None" :> 0)

octaves_from_4 ==
    ("0" :> -4) @@ ("1" :> -3) @@ ("2" :> -2) @@ ("3" :> -1) @@ ("4" :> 0) @@
    ("5" :> 1) @@ ("6" :> 2) @@ ("7" :> 3) @@ ("8" :> 4) @@ ("9" :> 5)

\* MidiNote::try_from_chars: the set of outcomes the builds can produce
try_from_chars(note, accidental, octave) ==
    IF note \notin DOMAIN note_semitones_from_a
    THEN {Err("InvalidNoteCharacter")}
    ELSE IF accidental \notin DOMAIN accidental_semitone_offset
    THEN {Err("InvalidAccidentalCharacter")}
    ELSE IF octave \notin DOMAIN octaves_from_4
    THEN {Err("InvalidOctaveCharacter")}
    ELSE LET sum == MidiNote_add(
                        MidiNote_add(
                            MidiNote_add([n |-> A4_MIDI_NOTE, overflow |-> FALSE],
                                         note_semitones_from_a[note]),
                            accidental_semitone_offset[accidental]),
                        octaves_from_4[octave] * SEMITONES_PER_OCTAVE)
         IN  IF sum.overflow THEN {Ok(sum.n), Err("panic")} ELSE {Ok(sum.n)}

\* impl TryFrom<&str> for MidiNote: value is the sequence of the token's chars
try_from(value) ==
    IF Len(value) = 3 THEN try_from_chars(value[1], value[2], value[3])
    ELSE IF Len(value) = 2 THEN try_from_chars(value[1], "None", value[2])
    ELSE {Err("InvalidLength")}

\* MidiNoteLike::into_midi_note_or_panic: try_into().unwrap(); the outcomes
\* a build can produce, Ok(note) or a panic
into_midi_note_or_panic(like, value) ==
    IF like = "MidiNote" THEN {Ok(value)}
    ELSE {IF r.ok THEN r ELSE Err("panic") : r \in try_from(value)}

\* the outcome of a call whose outcome does not depend on the build
Resolve(like, value) ==
    CHOOSE r \in into_midi_note_or_panic(like, value) :
        into_midi_note_or_panic(like, value) = {r}

(***************************************************************************)
(* Task bodies.  A future is the code of an async block, the position in   *)
(* it (pc: the instruction, ph: the await point within the instruction),   *)
(* the Waiter it is awaiting (end) and its locals: one AudioShapeProxy     *)
(* (shape, 0 when none) and one Instrument (inst, shape 0 when none).      *)
(***************************************************************************)
Wait(ms) == [op |-> "wait", ms |-> ms]
NewShape(shape) == [op |-> "new_shape", shape |-> shape]
SetFrequency(f) == [op |-> "set_frequency", frequency |-> f]
SetVolume(v) == [op |-> "set_volume", volume |-> v]
DropShape == [op |-> "drop_shape"]
StartProgram(code) == [op |-> "start_program", code |-> code]
NewInstrument(beat_settings, max_volume, waveform) ==
    [op |-> "new_instrument", beat_settings |-> beat_settings,
     max_volume |-> max_volume, waveform |-> waveform]
\* like is the type N: MidiNoteLike of the call: a MidiNote, or a &str whose
\* value is the sequence of the token's chars
PlayNote(note, length) ==
    [op |-> "play_note", note |-> note, length |-> length, like |-> "MidiNote"]
PlayNoteWithoutRelease(note, length) ==
    [op |-> "play_note_without_release", note |-> note, length |-> length,
     like |-> "MidiNote"]
PlayChord(notes, length) ==
    [op |-> "play_chord", notes |-> notes, length |-> length, like |-> "MidiNote"]
PlayNoteStr(value, length) ==
    [op |-> "play_note", note |-> value, length |-> length, like |-> "str"]
PlayChordStr(values, length) ==
    [op |-> "play_chord", notes |-> values, length |-> length, like |-> "str"]
Rest(length) == [op |-> "rest", length |-> length]
Skip(length) == [op |-> "skip", length |-> length]

NoInstrument ==
    [beat_counter |-> NewBeatCounter(BeatSettings(60, FOUR_FOUR)),
     shape |-> 0, max_volume |-> 0, start_time |-> Q(0)]

\* Box::pin(program): a future that has not been polled yet
NewFuture(code, inst) ==
    [code |-> code, pc |-> 1, ph |-> 0, end |-> Q(0), shape |-> 0, inst |-> inst]

\* const PAUSE_MS: f64 = 50.0
PAUSE_MS == 50

(***************************************************************************)
(* One poll of a future works on W: the registry, NEW_PROGRAMS, the        *)
(* futures, the observation log, the polled task t, and st: "run" while    *)
(* the body executes, then the poll's result, "Pending" or "Ready".        *)
(***************************************************************************)
Fut(W) == W.futs[W.t]

Event(W, ev, id, val, end) ==
    [ev |-> ev, task |-> W.t, pass |-> pass, time |-> CURRENT_TIME,
     id |-> id, val |-> val, end |-> end]

Logged(W, ev, id, val, end) == [W EXCEPT !.log = Append(@, Event(W, ev, id, val, end))]

get_current_time_Polls == QAdd(CURRENT_TIME, Q(Len(polled)))

\* fn get_current_time / Player::current_time
get_current_time == CURRENT_TIME

\* Waiter::new(ms, get_current_time), awaited by the polled task
Player_wait(W, ms) ==
    LET end == QAdd(get_current_time, ms)
    IN  Logged([W EXCEPT !.futs[W.t].end = end], "wait", 0, 0, end)

Waiter_poll_Strict(end) == QGt(get_current_time, end)

\* Waiter::poll: TRUE for Poll::Ready
Waiter_poll(end) == QGe(get_current_time, end)

\* proxy.set_frequency / set_volume / drop, and Player::new_shape, by the polled task
DoSetFrequency(W, id, f) ==
    Logged([W EXCEPT !.reg = set_frequency(W.reg, id, f)], "set_frequency", id, f, Q(0))

DoSetVolume(W, id, v) ==
    Logged([W EXCEPT !.reg = set_volume(W.reg, id, v)], "set_volume", id, v, Q(0))

DoDrop(W, id) ==
    IF id = 0 THEN W
    ELSE Logged([W EXCEPT !.reg = AudioShapeProxy_drop(W.reg, id)], "drop", id, 0, Q(0))

DoNewShape(W, shape) ==
    LET reg == AudioShapeProxy_new(W.reg, shape, CURRENT_SAMPLE_RATE)
    IN  Logged([W EXCEPT !.reg = reg], "new_shape", reg.latest_id, 0, Q(0))

\* Player::start_program: the boxed future is pushed on NEW_PROGRAMS
start_program(W, code, inst) ==
    LET child == Len(W.futs) + 1
    IN  Logged([W EXCEPT !.futs = Append(@, NewFuture(code, inst)),
                         !.newp = Append(@, child),
                         !.spawned = Append(@, child)],
               "start_program", child, 0, Q(0))

\* the instruction at pc is complete: go on with the next one
Advance(W) ==
    Logged([W EXCEPT !.futs[W.t].pc = @ + 1, !.futs[W.t].ph = 0],
           "return", Fut(W).pc, 0, Q(0))

Suspend(W) == [W EXCEPT !.st = "Pending"]

\* an unwrap on Err: the poll does not return
Panic(W) == [Logged(W, "panic", Fut(W).pc, 0, Q(0)) EXCEPT !.st = "Panicked"]

(***************************************************************************)
(* instrument.rs: Instrument.  The Arc<Mutex<_>> fields are held by value: *)
(* a lock is taken and released within one synchronous stretch of a poll.  *)
(***************************************************************************)
\* Player::current_time(), read by Instrument
Player_current_time == CURRENT_TIME

Instrument_new(W, beat_settings, max_volume, waveform) ==
    LET W1 == DoNewShape(W, [DefaultAudioShape EXCEPT !.waveform = waveform])
    IN  [W1 EXCEPT !.futs[W.t].inst =
            [beat_counter |-> NewBeatCounter(beat_settings),
             shape |-> W1.reg.latest_id,
             max_volume |-> max_volume,
             start_time |-> Player_current_time]]

duplicate_SameVoice(W, inst) == [W |-> W, instrument |-> inst]

\* Instrument::duplicate: the registry with the cloned voice, and the copy
duplicate(W, inst) ==
    LET reg == AudioShapeProxy_clone(W.reg, inst.shape, CURRENT_SAMPLE_RATE)
    IN  [W |-> Logged([W EXCEPT !.reg = reg], "new_shape", reg.latest_id, 0, Q(0)),
         instrument |-> [inst EXCEPT !.shape = reg.latest_id]]

wait_for_beat_ms_NoResync(inst, length, offset) ==
    QAdd(ToQ(duration_in_millis(inst.beat_counter.settings, length)), offset)

\* wait_for_beat, the block computing ms
wait_for_beat_ms(inst, length, offset) ==
    LET beat_counter == inst.beat_counter
        total == ToQ(total_millis(beat_counter))
        millis_passed == QSub(Player_current_time, inst.start_time)
        delta == QSub(total, millis_passed)
        final_offset == IF FIsWhole(total_measures(beat_counter))
                        THEN QAdd(offset, delta)
                        ELSE offset
    IN  QAdd(ToQ(duration_in_millis(beat_counter.settings, length)), final_offset)

wait_for_beat_await_Unclamped(W, ms) == [Player_wait(W, ms) EXCEPT !.futs[W.t].ph = 1]

\* wait_for_beat up to its await point (ph 1), or past it when ms <= 0 (ph 2)
wait_for_beat_await(W, ms) ==
    IF QGt(ms, Q(0))
    THEN [Player_wait(W, ms) EXCEPT !.futs[W.t].ph = 1]
    ELSE [W EXCEPT !.futs[W.t].ph = 2]

wait_for_beat(W, length, offset) ==
    wait_for_beat_await([W EXCEPT !.futs[W.t].inst.beat_counter = increment(@, length)],
                        wait_for_beat_ms(Fut(W).inst, length, offset))

\* an await point: the Waiter is polled; on Ready the body goes on at ph
Await(W, ph) ==
    IF Waiter_poll(Fut(W).end) THEN [W EXCEPT !.futs[W.t].ph = ph] ELSE Suspend(W)

\* the last await point of an instruction
AwaitLast(W) == IF Waiter_poll(Fut(W).end) THEN Advance(W) ELSE Suspend(W)

\* play_note_impl, by await point
play_note_impl(W, note, length, release_ms) ==
    LET inst == Fut(W).inst
        ph == Fut(W).ph
    IN  CASE ph = 0 ->
               wait_for_beat(
                   DoSetVolume(DoSetFrequency(W, inst.shape, MidiNote_frequency(note)),
                               inst.shape, inst.max_volume),
                   length, QNeg(release_ms))
          [] ph = 1 -> Await(W, 2)
          [] ph = 2 ->
               IF QGt(release_ms, Q(0))
               THEN [Player_wait(DoSetVolume(W, inst.shape, 0), release_ms)
                        EXCEPT !.futs[W.t].ph = 3]
               ELSE Advance(W)
          [] ph = 3 -> AwaitLast(W)

play_note(W, note, length) == play_note_impl(W, note, length, Q(PAUSE_MS))

play_note_without_release(W, note, length) == play_note_impl(W, note, length, Q(0))

\* play_chord's loop over notes.iter().skip(1), from the k-th note on; notes
\* holds what into_midi_note_or_panic makes of each note
RECURSIVE SpawnSiblings(_, _, _, _)
SpawnSiblings(W, notes, k, length) ==
    IF k > Len(notes)
    THEN W
    ELSE LET d == duplicate(W, Fut(W).inst)
         IN  IF notes[k].ok
             THEN SpawnSiblings(start_program(d.W, <<PlayNote(notes[k].note, length)>>,
                                              d.instrument),
                                notes, k + 1, length)
             ELSE Panic(d.W)

\* the call is entered: an observation, the voice and the instruction
Called(W) == Logged(W, "play_chord", Fut(W).inst.shape, Fut(W).pc, Q(0))

play_chord_ReturnAfterSpawn(W, notes, length) ==
    IF Fut(W).ph = 0 THEN Advance(SpawnSiblings(Called(W), notes, 2, length)) ELSE Advance(W)

\* the first note of play_chord, on the W its loop has left
play_chord_first(W, notes, length) ==
    IF W.st = "Panicked" THEN W
    ELSE IF notes[1].ok THEN play_note(W, notes[1].note, length)
    ELSE Panic(W)

\* one beat counter for the caller and its siblings
play_chord_OneCounter(W, notes, length) ==
    IF Fut(W).ph = 0
    THEN LET W1 == play_chord_first(SpawnSiblings(Called(W), notes, 2, length),
                                    notes, length)
         IN  IF W1.st = "Panicked"
             THEN W1
             ELSE [W1 EXCEPT !.futs[W.t].inst.beat_counter.sixty_fourth_beats =
                                 @ + (Len(notes) - 1) * sixty_fourth_beats(length)]
    ELSE play_note(W, notes[1].note, length)

play_chord(W, notes, length) ==
    IF Fut(W).ph = 0
    THEN play_chord_first(SpawnSiblings(Called(W), notes, 2, length), notes, length)
    ELSE play_note(W, notes[1].note, length)

rest(W, length) ==
    LET ph == Fut(W).ph
    IN  CASE ph = 0 -> wait_for_beat(DoSetVolume(W, Fut(W).inst.shape, 0), length, Q(0))
          [] ph = 1 -> AwaitLast(W)
          [] ph = 2 -> Advance(W)

\* the beat counter and start_time of the polled task's instrument, observed
Observed(W, ev) ==
    Logged(W, ev, Fut(W).pc, Fut(W).inst.beat_counter.sixty_fourth_beats,
           Fut(W).inst.start_time)

\* Instrument::skip: ms is total_millis() of the counter after the increment
skip(W, length) ==
    LET counter == increment(Fut(W).inst.beat_counter, length)
        ms == ToQ(total_millis(counter))
    IN  Advance(Observed([Observed(W, "skip_entered")
                             EXCEPT !.futs[W.t].inst.beat_counter = counter,
                                    !.futs[W.t].inst.start_time = QSub(@, ms)],
                         "skip"))

(***************************************************************************)
(* A poll of task W.t: the body runs from where it was suspended to its    *)
(* next pending await (Pending) or to its end, where its locals are        *)
(* dropped (Ready).                                                        *)
(***************************************************************************)
Step(W) ==
    LET fut == Fut(W)
    IN  IF fut.pc > Len(fut.code)
        THEN [DoDrop(DoDrop(W, fut.inst.shape), fut.shape) EXCEPT !.st = "Ready"]
        ELSE LET ins == fut.code[fut.pc]
             IN  CASE ins.op = "wait" ->
                        IF fut.ph = 0
                        THEN [Player_wait(W, ins.ms) EXCEPT !.futs[W.t].ph = 1]
                        ELSE AwaitLast(W)
                   [] ins.op = "new_shape" ->
                        LET W1 == DoNewShape(DoDrop(W, fut.shape), ins.shape)
                        IN  Advance([W1 EXCEPT !.futs[W.t].shape = W1.reg.latest_id])
                   [] ins.op = "set_frequency" ->
                        Advance(DoSetFrequency(W, fut.shape, ins.frequency))
                   [] ins.op = "set_volume" ->
                        Advance(DoSetVolume(W, fut.shape, ins.volume))
                   [] ins.op = "drop_shape" ->
                        Advance([DoDrop(W, fut.shape) EXCEPT !.futs[W.t].shape = 0])
                   [] ins.op = "start_program" ->
                        Advance(start_program(W, ins.code, NoInstrument))
                   [] ins.op = "new_instrument" ->
                        Advance(Instrument_new(W, ins.beat_settings, ins.max_volume,
                                               ins.waveform))
                   [] ins.op = "play_note" ->
                        IF Resolve(ins.like, ins.note).ok
                        THEN play_note(W, Resolve(ins.like, ins.note).note, ins.length)
                        ELSE Panic(W)
                   [] ins.op = "play_note_without_release" ->
                        IF Resolve(ins.like, ins.note).ok
                        THEN play_note_without_release(W, Resolve(ins.like, ins.note).note,
                                                       ins.length)
                        ELSE Panic(W)
                   [] ins.op = "play_chord" ->
                        play_chord(W, [k \in DOMAIN ins.notes |->
                                          Resolve(ins.like, ins.notes[k])],
                                   ins.length)
                   [] ins.op = "rest" -> rest(W, ins.length)
                   [] ins.op = "skip" -> skip(W, ins.length)

RECURSIVE Run(_)
Run(W) == IF W.st = "run" THEN Run(Step(W)) ELSE W

(***************************************************************************)
(* player.rs: Player.                                                      *)
(***************************************************************************)
WAV_CHANNELS == 1
WAV_SAMPLE_RATE == 44100

\* what write_wav and get_stream construct; task 1 is the boxed main program
NewPlayer(num_channels, sample_rate, live) ==
    [num_channels |-> num_channels, sample_rate |-> sample_rate, programs |-> <<1>>,
     total_samples |-> 0, sender |-> live, is_finished |-> FALSE]

\* sync_channel(1), and the PlayerProxy that holds the stream and the receiver
NewChannel(live) ==
    [buf |-> 0, receiver |-> IF live THEN "waiting" ELSE "none", sent |-> 0, late |-> 0]

RemoveAt_Keep(seq, k) == seq

RemoveAt_Last(seq, k) == SubSeq(seq, 1, Len(seq) - 1)

RemoveAt(seq, k) == [j \in 1..(Len(seq) - 1) |-> IF j < k THEN seq[j] ELSE seq[j + 1]]

Reverse(seq) == [j \in 1..Len(seq) |-> seq[Len(seq) + 1 - j]]

process_new_programs_Discard(programs, new_programs) == programs

\* process_new_programs: NEW_PROGRAMS is popped from its end until empty
process_new_programs(programs, new_programs) == programs \o Reverse(new_programs)

samples_per_program_loop(p) ==
    LET samples_per_ms == p.sample_rate \div 1000
    IN  samples_per_ms \div 2

RECURSIVE next_samples(_, _)
next_samples(registry, n) ==
    IF n = 0 THEN registry ELSE next_samples(next_sample(registry), n - 1)

\* SyncSender::send on a channel of capacity 1
send(ch) ==
    IF ch.receiver = "dropped" THEN [channel |-> ch, result |-> "Err"]
    ELSE IF ch.buf < 1
         THEN [channel |-> [ch EXCEPT !.buf = @ + 1, !.sent = @ + 1], result |-> "Ok"]
         ELSE [channel |-> ch, result |-> "Blocked"]

check_finished_Resend(p, registry, ch) ==
    LET reg == remove_finished_synths(registry)
        s == send(ch)
    IN  IF is_empty(reg) /\ Len(p.programs) = 0
        THEN IF p.sender
             THEN [player |-> IF s.result = "Ok" THEN [p EXCEPT !.is_finished = TRUE] ELSE p,
                   registry |-> reg, channel |-> s.channel, result |-> s.result]
             ELSE [player |-> [p EXCEPT !.is_finished = TRUE],
                   registry |-> reg, channel |-> ch, result |-> "None"]
        ELSE [player |-> p, registry |-> reg, channel |-> ch, result |-> "None"]

check_finished(p, registry, ch) ==
    LET reg == remove_finished_synths(registry)
        s == send(ch)
    IN  IF is_empty(reg) /\ Len(p.programs) = 0 /\ ~p.is_finished
        THEN IF p.sender
             THEN [player |-> IF s.result = "Ok" THEN [p EXCEPT !.is_finished = TRUE] ELSE p,
                   registry |-> reg, channel |-> s.channel, result |-> s.result]
             ELSE [player |-> [p EXCEPT !.is_finished = TRUE],
                   registry |-> reg, channel |-> ch, result |-> "None"]
        ELSE [player |-> p, registry |-> reg, channel |-> ch, result |-> "None"]

clock_Seconds(total_samples, sample_rate) == QDiv(Q(total_samples), Q(sample_rate))

\* the clock increment_total_samples stores
clock(total_samples, sample_rate) ==
    QMul(QDiv(Q(total_samples), Q(sample_rate)), Q(1000))

\* the poll of task t in the current state
poll(t) ==
    Run([reg |-> CURRENT_SYNTHS, newp |-> NEW_PROGRAMS, futs |-> futures, log |-> log,
         spawned |-> spawned, t |-> t, st |-> "run"])

(***************************************************************************)
(* The registry under free clients: any interleaving of new_shape, clone,  *)
(* set_frequency, set_volume and drop on live proxies with next_sample and *)
(* remove_finished_synths.  The scheduler's own interleavings are among    *)
(* these.                                                                  *)
(***************************************************************************)
MaxVolume == 1
MaxSamples == 3

VoiceIds == {1, 2}
SmallVolumes == 0..MaxVolume
VoiceFrequencies == {-1, 0, 1}
VoiceSampleRates == {2}

InitOther ==
    /\ CURRENT_TIME = Q(0)
    /\ NEW_PROGRAMS = << >>
    /\ player = [num_channels |-> 1, sample_rate |-> 0, programs |-> << >>,
                 total_samples |-> 0, sender |-> FALSE, is_finished |-> FALSE]
    /\ futures = << >>
    /\ channel = NewChannel(FALSE)
    /\ pc = "client"
    /\ i = 0
    /\ num_samples = 0
    /\ frames_left = 0
    /\ bc = [settings |-> [bpm |-> 60, time_signature |-> <<4, "Quarter">>],
             sixty_fourth_beats |-> 0]
    /\ pass = 0
    /\ polled = << >>
    /\ spawned = << >>
    /\ log = << >>
    /\ last_op = "none"

InitVoices ==
    /\ CURRENT_SAMPLE_RATE \in VoiceSampleRates
    /\ CURRENT_SYNTHS = NewRegistry
    /\ proxies = {}
    /\ tracks = NoTracks
    /\ InitOther

UnchangedScheduler ==
    UNCHANGED <<CURRENT_SAMPLE_RATE, CURRENT_TIME, NEW_PROGRAMS, player, futures,
                channel, pc, i, num_samples, frames_left, bc, tracks, pass, polled, spawned,
                log>>

\* Player::new_shape
VNewShape(Ids, Freqs, Vols) ==
    /\ CURRENT_SYNTHS.latest_id + 1 \in Ids
    /\ \E frequency \in Freqs, volume \in Vols :
          CURRENT_SYNTHS' = AudioShapeProxy_new(CURRENT_SYNTHS,
                                AudioShape("Sine", frequency, volume), CURRENT_SAMPLE_RATE)
    /\ proxies' = proxies \cup {CURRENT_SYNTHS'.latest_id}
    /\ last_op' = "new_shape"
    /\ UnchangedScheduler

VClone(Ids) ==
    /\ CURRENT_SYNTHS.latest_id + 1 \in Ids
    /\ \E id \in proxies :
          CURRENT_SYNTHS' = AudioShapeProxy_clone(CURRENT_SYNTHS, id, CURRENT_SAMPLE_RATE)
    /\ proxies' = proxies \cup {CURRENT_SYNTHS'.latest_id}
    /\ last_op' = "clone"
    /\ UnchangedScheduler

VSetFrequency(Freqs) ==
    /\ \E id \in proxies, frequency \in Freqs :
          CURRENT_SYNTHS' = set_frequency(CURRENT_SYNTHS, id, frequency)
    /\ last_op' = "set_frequency"
    /\ UNCHANGED proxies
    /\ UnchangedScheduler

VSetVolume(Vols) ==
    /\ \E id \in proxies, volume \in Vols :
          CURRENT_SYNTHS' = set_volume(CURRENT_SYNTHS, id, volume)
    /\ last_op' = "set_volume"
    /\ UNCHANGED proxies
    /\ UnchangedScheduler

VDrop ==
    /\ \E id \in proxies :
          /\ CURRENT_SYNTHS' = AudioShapeProxy_drop(CURRENT_SYNTHS, id)
          /\ proxies' = proxies \ {id}
    /\ last_op' = "drop"
    /\ UnchangedScheduler

VNextSample(Samples) ==
    /\ get_total_samples(CURRENT_SYNTHS) < Samples
    /\ CURRENT_SYNTHS' = next_sample(CURRENT_SYNTHS)
    /\ last_op' = "next_sample"
    /\ UNCHANGED proxies
    /\ UnchangedScheduler

VRemoveFinished ==
    /\ CURRENT_SYNTHS' = remove_finished_synths(CURRENT_SYNTHS)
    /\ last_op' = "remove_finished_synths"
    /\ UNCHANGED proxies
    /\ UnchangedScheduler

NextVoices ==
    \/ VNewShape(VoiceIds, VoiceFrequencies, SmallVolumes)
    \/ VClone(VoiceIds)
    \/ VSetFrequency(VoiceFrequencies)
    \/ VSetVolume(SmallVolumes)
    \/ VDrop
    \/ VNextSample(MaxSamples)
    \/ VRemoveFinished

SpecVoices == InitVoices /\ [][NextVoices]_vars

(***************************************************************************)
(* One voice faded out from any amplitude: its target is 255, its handle   *)
(* is dropped after any number of samples, and enough samples are produced *)
(* to ramp up to 255 and all the way down again.                           *)
(***************************************************************************)
FadeSamples == 2 * U8_MAX + 1

NextFade ==
    \/ VNewShape({1}, {0}, {U8_MAX})
    \/ VDrop
    \/ VNextSample(FadeSamples)
    \/ VRemoveFinished

SpecFade == InitVoices /\ [][NextFade]_vars

(***************************************************************************)
(* The handle operations of SpecVoices, and set_frequency and set_volume   *)
(* through a handle whose id the registry of this thread does not hold (an *)
(* AudioShapeProxy is Send: it can reach a thread with another registry).  *)
(***************************************************************************)
VSetAbsent(Ids, Freqs, Vols) ==
    /\ \E id \in Ids \ DOMAIN CURRENT_SYNTHS.map :
          \/ /\ \E frequency \in Freqs :
                   CURRENT_SYNTHS' = set_frequency(CURRENT_SYNTHS, id, frequency)
             /\ last_op' = "set_frequency_absent"
          \/ /\ \E volume \in Vols :
                   CURRENT_SYNTHS' = set_volume(CURRENT_SYNTHS, id, volume)
             /\ last_op' = "set_volume_absent"
    /\ UNCHANGED proxies
    /\ UnchangedScheduler

NextHandles ==
    \/ VNewShape(VoiceIds, VoiceFrequencies, SmallVolumes)
    \/ VClone(VoiceIds)
    \/ VSetFrequency(VoiceFrequencies)
    \/ VSetVolume(SmallVolumes)
    \/ VSetAbsent(VoiceIds, VoiceFrequencies, SmallVolumes)
    \/ VDrop
    \/ VNextSample(MaxSamples)
    \/ VRemoveFinished

SpecHandles == InitVoices /\ [][NextHandles]_vars

(***************************************************************************)
(* One voice over the whole u8 range: its target moves between the ends of *)
(* the range, and enough samples are produced to ramp up to 255 and back.  *)
(***************************************************************************)
RampVolumes == {0, U8_MAX}
RampSamples == U8_MAX + 2

NextRamp ==
    \/ VNewShape({1}, {0}, RampVolumes)
    \/ VSetVolume(RampVolumes)
    \/ VDrop
    \/ VNextSample(RampSamples)
    \/ VRemoveFinished

SpecRamp == InitVoices /\ [][NextRamp]_vars

(***************************************************************************)
(* The scheduler with its two drivers.  pc is the driver's position:       *)
(* "write_wav_audio", "loop", "done" (offline); "idle", "chunk" (live);    *)
(* "execute_programs", "check_finished", "increment_total_samples" within  *)
(* generate_samples; "blocked" in a send that cannot proceed; "panicked".  *)
(***************************************************************************)
InitSession(live, num_channels, sample_rate, code) ==
    /\ CURRENT_SAMPLE_RATE = 0
    /\ CURRENT_TIME = Q(0)
    /\ CURRENT_SYNTHS = NewRegistry
    /\ NEW_PROGRAMS = << >>
    /\ player = NewPlayer(num_channels, sample_rate, live)
    /\ futures = <<NewFuture(code, NoInstrument)>>
    /\ channel = NewChannel(live)
    /\ pc = IF live THEN "idle" ELSE "write_wav_audio"
    /\ i = 0
    /\ num_samples = 0
    /\ frames_left = 0
    /\ proxies = {}
    /\ tracks = NoTracks
    /\ bc = NewBeatCounter(BeatSettings(60, FOUR_FOUR))
    /\ pass = 0
    /\ polled = << >>
    /\ spawned = << >>
    /\ log = << >>
    /\ last_op = "none"

\* write_wav_audio up to its loop
WriteWavAudio ==
    /\ pc = "write_wav_audio"
    /\ IF player.num_channels = 1
       THEN /\ CURRENT_SAMPLE_RATE' = player.sample_rate
            /\ CURRENT_TIME' = Q(0)
            /\ pc' = "loop"
       ELSE /\ pc' = "panicked"
            /\ UNCHANGED <<CURRENT_SAMPLE_RATE, CURRENT_TIME>>
    /\ last_op' = "write_wav_audio"
    /\ UNCHANGED <<CURRENT_SYNTHS, NEW_PROGRAMS, player, futures, channel, i, num_samples,
                   frames_left, proxies, tracks, bc, pass, polled, spawned, log>>

\* `while !self.is_finished` left: the trailing silence is written
WavDone ==
    /\ pc = "loop"
    /\ player.is_finished
    /\ pc' = "done"
    /\ last_op' = "done"
    /\ UNCHANGED <<CURRENT_SAMPLE_RATE, CURRENT_TIME, CURRENT_SYNTHS, NEW_PROGRAMS, player,
                   futures, channel, i, num_samples, frames_left, proxies, tracks, bc, pass,
                   polled, spawned, log>>

\* the data callback: write_audio up to its loop over chunks
WriteAudio(Frames, LateCallbacks) ==
    /\ pc = "idle"
    /\ channel.receiver # "dropped"
    /\ player.is_finished => channel.late < LateCallbacks
    /\ \E frames \in Frames :
          IF samples_per_program_loop(player) * player.num_channels = 0
          THEN pc' = "panicked" /\ UNCHANGED frames_left
          ELSE pc' = "chunk" /\ frames_left' = frames
    /\ IF player.total_samples = 0
       THEN CURRENT_SAMPLE_RATE' = player.sample_rate /\ CURRENT_TIME' = Q(0)
       ELSE UNCHANGED <<CURRENT_SAMPLE_RATE, CURRENT_TIME>>
    /\ channel' = IF player.is_finished THEN [channel EXCEPT !.late = @ + 1] ELSE channel
    /\ last_op' = "write_audio"
    /\ UNCHANGED <<CURRENT_SYNTHS, NEW_PROGRAMS, player, futures, i, num_samples,
                   proxies, tracks, bc, pass, polled, spawned, log>>

\* generate_samples is entered: a scheduling pass begins
GenerateSamples ==
    /\ \/ pc = "loop" /\ ~player.is_finished
       \/ pc = "chunk"
    /\ pc' = "execute_programs"
    /\ i' = 0
    /\ pass' = pass + 1
    /\ polled' = << >>
    /\ spawned' = << >>
    /\ last_op' = "generate_samples"
    /\ UNCHANGED <<CURRENT_SAMPLE_RATE, CURRENT_TIME, CURRENT_SYNTHS, NEW_PROGRAMS, player,
                   futures, channel, num_samples, frames_left, proxies, tracks, bc, log>>

\* one iteration of execute_programs' loop
PollProgram ==
    /\ pc = "execute_programs"
    /\ i < Len(player.programs)
    /\ \E W \in {poll(player.programs[i + 1])} :
         LET programs == IF W.st = "Ready" THEN RemoveAt(player.programs, i + 1)
                                          ELSE player.programs
         IN  /\ IF W.st = "Panicked"
                THEN /\ pc' = "panicked"
                     /\ NEW_PROGRAMS' = W.newp
                     /\ UNCHANGED <<i, player>>
                ELSE /\ pc' = pc
                     /\ i' = IF W.st = "Ready" THEN i ELSE i + 1
                     /\ player' = [player EXCEPT
                                      !.programs = process_new_programs(programs, W.newp)]
                     /\ NEW_PROGRAMS' = << >>
             /\ CURRENT_SYNTHS' = W.reg
             /\ futures' = W.futs
             /\ log' = W.log
             /\ spawned' = W.spawned
             /\ polled' = Append(polled, W.t)
    /\ last_op' = "poll"
    /\ UNCHANGED <<CURRENT_SAMPLE_RATE, CURRENT_TIME, channel, num_samples, frames_left,
                   proxies, tracks, bc, pass>>

\* execute_programs returns; the driver's closure f produces the samples
Produce ==
    /\ pc = "execute_programs"
    /\ i >= Len(player.programs)
    /\ LET start_samples == get_total_samples(CURRENT_SYNTHS)
           n == IF player.sender
                THEN IF frames_left < samples_per_program_loop(player)
                     THEN frames_left ELSE samples_per_program_loop(player)
                ELSE samples_per_program_loop(player)
       IN  /\ CURRENT_SYNTHS' = next_samples(CURRENT_SYNTHS, n)
           /\ num_samples' = get_total_samples(CURRENT_SYNTHS') - start_samples
           /\ frames_left' = IF player.sender THEN frames_left - n ELSE frames_left
    /\ pc' = "check_finished"
    /\ last_op' = "produce"
    /\ UNCHANGED <<CURRENT_SAMPLE_RATE, CURRENT_TIME, NEW_PROGRAMS, player, futures, channel,
                   i, proxies, tracks, bc, pass, polled, spawned, log>>

CheckFinished ==
    /\ pc = "check_finished"
    /\ LET r == check_finished(player, CURRENT_SYNTHS, channel)
       IN  /\ player' = r.player
           /\ CURRENT_SYNTHS' = r.registry
           /\ channel' = r.channel
           /\ pc' = IF r.result = "Blocked" THEN "blocked" ELSE "increment_total_samples"
           /\ last_op' = IF r.result = "None" THEN "check_finished" ELSE r.result
    /\ UNCHANGED <<CURRENT_SAMPLE_RATE, CURRENT_TIME, NEW_PROGRAMS, futures, i, num_samples,
                   frames_left, proxies, tracks, bc, pass, polled, spawned, log>>

\* increment_total_samples, and the return to the driver's loop
IncrementTotalSamples ==
    /\ pc = "increment_total_samples"
    /\ player' = [player EXCEPT !.total_samples = @ + num_samples]
    /\ CURRENT_TIME' = clock(player'.total_samples, player.sample_rate)
    /\ pc' = IF player.sender
             THEN IF frames_left > 0 THEN "chunk" ELSE "idle"
             ELSE "loop"
    /\ last_op' = "increment_total_samples"
    /\ UNCHANGED <<CURRENT_SAMPLE_RATE, CURRENT_SYNTHS, NEW_PROGRAMS, futures, channel, i,
                   num_samples, frames_left, proxies, tracks, bc, pass, polled, spawned, log>>

\* the controller thread: wait_until_finished's recv
Recv ==
    /\ channel.receiver = "waiting"
    /\ channel.buf > 0
    /\ channel' = [channel EXCEPT !.buf = @ - 1, !.receiver = "sleeping"]
    /\ last_op' = "recv"
    /\ UNCHANGED <<CURRENT_SAMPLE_RATE, CURRENT_TIME, CURRENT_SYNTHS, NEW_PROGRAMS, player,
                   futures, pc, i, num_samples, frames_left, proxies, tracks, bc, pass, polled,
                   spawned, log>>

\* play_until_finished returns: the PlayerProxy, its stream and its receiver are dropped
DropPlayerProxy ==
    /\ channel.receiver = "sleeping"
    /\ channel' = [channel EXCEPT !.receiver = "dropped"]
    /\ last_op' = "drop_player_proxy"
    /\ UNCHANGED <<CURRENT_SAMPLE_RATE, CURRENT_TIME, CURRENT_SYNTHS, NEW_PROGRAMS, player,
                   futures, pc, i, num_samples, frames_left, proxies, tracks, bc, pass, polled,
                   spawned, log>>

(***************************************************************************)
(* Sessions: a driver, its sample rate, and a main program.  The offline   *)
(* driver runs at WAV_SAMPLE_RATE with one channel; the live driver here   *)
(* runs at 4000 Hz (2 samples per pass) with two channels and hardware     *)
(* buffers of 3 or 4 frames, so that buffers end with a short chunk.       *)
(***************************************************************************)
MaxLateCallbacks == 2

LiveSampleRates == {4000}
LiveChannels == {2}
BufferFrames == {3, 4}

\* a voice whose frequency and volume change, dropped while audible
SirenProgram ==
    <<NewShape(AudioShape("Sine", 440, 5)), Wait(Q(1)), SetFrequency(880), SetVolume(3),
      Wait(Q(1)), DropShape, Wait(Rat(1, 2))>>

\* the main task ends in its first poll, after spawning tasks that spawn
NestedProgram ==
    <<StartProgram(<<StartProgram(<<NewShape(AudioShape("Square", 220, 1)), Wait(Q(1))>>),
                     Wait(Rat(3, 2)),
                     StartProgram(<<Wait(Q(0))>>)>>),
      StartProgram(<<NewShape(AudioShape("Sine", 440, 2)), Wait(Q(2))>>)>>

\* chords of three notes and of one note, then a rest
ChordProgram ==
    <<NewInstrument(BeatSettings(60, FOUR_FOUR), 2, "Sine"),
      PlayChord(<<57, 69, 81>>, "SixtyFourth"),
      PlayChord(<<69>>, "SixtyFourth"),
      Rest("SixtyFourth")>>

\* a chord whose length lasts 31.25 ms, less than PAUSE_MS, then a slurred note
ShortChordProgram ==
    <<NewInstrument(BeatSettings(120, FOUR_FOUR), 2, "Triangle"),
      PlayChord(<<69, 81>>, "SixtyFourth"),
      PlayNoteWithoutRelease(57, "ThirtySecond")>>

\* the live sessions run the programs that last a few milliseconds
LivePrograms == {<< >>, SirenProgram, NestedProgram}
MainPrograms == LivePrograms \cup {ChordProgram, ShortChordProgram}

Init ==
    \/ \E code \in MainPrograms :
          InitSession(FALSE, WAV_CHANNELS, WAV_SAMPLE_RATE, code)
    \/ \E code \in LivePrograms, sample_rate \in LiveSampleRates,
             num_channels \in LiveChannels :
          InitSession(TRUE, num_channels, sample_rate, code)

Next ==
    \/ WriteWavAudio
    \/ WavDone
    \/ WriteAudio(BufferFrames, MaxLateCallbacks)
    \/ GenerateSamples
    \/ PollProgram
    \/ Produce
    \/ CheckFinished
    \/ IncrementTotalSamples
    \/ Recv
    \/ DropPlayerProxy

Spec == Init /\ [][Next]_vars

(***************************************************************************)
(* One measure rendered offline: write_wav with a program whose instrument *)
(* plays a quarter, a half and two eighths in 4/4 at 60 BPM.               *)
(***************************************************************************)
MeasureProgram ==
    <<NewInstrument(BeatSettings(60, FOUR_FOUR), 2, "Sine"),
      PlayNote(69, "Quarter"), PlayNote(81, "Half"),
      PlayNote(69, "Eighth"), PlayNote(57, "Eighth")>>

InitMeasure == InitSession(FALSE, WAV_CHANNELS, WAV_SAMPLE_RATE, MeasureProgram)

NextWav ==
    \/ WriteWavAudio
    \/ WavDone
    \/ GenerateSamples
    \/ PollProgram
    \/ Produce
    \/ CheckFinished
    \/ IncrementTotalSamples

SpecMeasure == InitMeasure /\ [][NextWav]_vars

(***************************************************************************)
(* Drift correction rendered offline: an instrument at 30000 BPM in a      *)
(* time signature of two sixty-fourths, so that a tick lasts 2 ms and a    *)
(* measure 4 ms, against a clock that moves in steps of 22 samples.  The   *)
(* slurred notes and rests start on and off measure boundaries behind the  *)
(* ideal timeline; the released note lasts less than PAUSE_MS.  The chord  *)
(* programs add instruments duplicated at a measure boundary.              *)
(***************************************************************************)
TWO_SIXTY_FOURTHS == <<2, "SixtyFourth">>

DriftProgram ==
    <<NewInstrument(BeatSettings(30000, TWO_SIXTY_FOURTHS), 2, "Sine"),
      PlayNoteWithoutRelease(69, "SixtyFourth"), Rest("SixtyFourth"),
      PlayNoteWithoutRelease(81, "SixtyFourth"), Rest("SixtyFourth"),
      PlayNote(69, "ThirtySecond"), Rest("SixtyFourth"),
      PlayNoteWithoutRelease(57, "SixtyFourth"), Rest("ThirtySecond")>>

\* released notes at 120 BPM in 4/4: a sixteenth on the measure boundary, then
\* off it a sixty-fourth, which lasts 31.25 ms, and an eighth
ShortNoteProgram ==
    <<NewInstrument(BeatSettings(120, FOUR_FOUR), 2, "Sine"),
      PlayNote(69, "Sixteenth"), PlayNote(81, "SixtyFourth"), PlayNote(69, "Eighth")>>

DriftPrograms == {DriftProgram, ChordProgram, ShortChordProgram, ShortNoteProgram}

InitDrift ==
    \E code \in DriftPrograms : InitSession(FALSE, WAV_CHANNELS, WAV_SAMPLE_RATE, code)

SpecDrift == InitDrift /\ [][NextWav]_vars

(***************************************************************************)
(* Notes given as strings, rendered offline: after a rest, so that the     *)
(* call is the first thing its poll does that has an effect, play_note and *)
(* play_chord are called with tokens of which one may not resolve.         *)
(***************************************************************************)
A3 == <<"A", "3">>
A4 == <<"A", "4">>
A5 == <<"A", "5">>
H4 == <<"H", "4">>

TokenProgram(call) ==
    <<NewInstrument(BeatSettings(120, FOUR_FOUR), 2, "Sine"), Rest("SixtyFourth"), call>>

TokenCalls ==
    {PlayNoteStr(A4, "Sixteenth"), PlayNoteStr(H4, "Sixteenth")}
        \cup {PlayChordStr(values, "Sixteenth") :
                 values \in {<<A4, A5>>, <<A4, H4>>, <<H4, A5>>, <<A3, A4, H4>>, <<H4>>}}

InitTokens ==
    \E call \in TokenCalls :
        InitSession(FALSE, WAV_CHANNELS, WAV_SAMPLE_RATE, TokenProgram(call))

SpecTokens == InitTokens /\ [][NextWav]_vars

\* offline sessions calling skip: on a fresh counter, twice in a row, and
\* after a note
SkipPrograms ==
    {<<NewInstrument(BeatSettings(120, FOUR_FOUR), 2, "Sine"),
       Skip("Quarter"), Skip("Quarter"), PlayNote(69, "Sixteenth")>>,
     <<NewInstrument(BeatSettings(120, FOUR_FOUR), 2, "Sine"),
       PlayNote(69, "Sixteenth"), Skip("Eighth"), Rest("Sixteenth")>>,
     <<NewInstrument(BeatSettings(60, FOUR_FOUR), 2, "Sine"),
       Skip("Sixteenth"), PlayNoteWithoutRelease(69, "Sixteenth")>>}

InitSkip ==
    \E code \in SkipPrograms : InitSession(FALSE, WAV_CHANNELS, WAV_SAMPLE_RATE, code)

SpecSkip == InitSkip /\ [][NextWav]_vars

(***************************************************************************)
(* Chords rendered offline: after a rest, chords of three notes, of one    *)
(* note and of two notes, of different lengths.                            *)
(***************************************************************************)
ChordsProgram ==
    <<NewInstrument(BeatSettings(120, FOUR_FOUR), 2, "Sine"),
      Rest("SixtyFourth"),
      PlayChord(<<57, 69, 81>>, "ThirtySecond"),
      PlayChord(<<69>>, "SixtyFourth"),
      PlayChord(<<69, 81>>, "Sixteenth")>>

InitChords == InitSession(FALSE, WAV_CHANNELS, WAV_SAMPLE_RATE, ChordsProgram)

SpecChords == InitChords /\ [][NextWav]_vars

(***************************************************************************)
(* Waits that end on the clock's grid: a live session at 4000 Hz, whose    *)
(* clock moves in steps of 0.5 ms or less, with an instrument at 5000 BPM  *)
(* in 7/8, so that an eighth lasts 12 ms and a sixty-fourth 1.5 ms, both   *)
(* exactly, while a ninth of an eighth of a measure is not a binary        *)
(* fraction.                                                               *)
(***************************************************************************)
SEVEN_EIGHT == <<7, "Eighth">>

AheadProgram ==
    <<NewInstrument(BeatSettings(5000, SEVEN_EIGHT), 2, "Sine"),
      Rest("Eighth"), Rest("SixtyFourth")>>

InitAhead ==
    \E sample_rate \in LiveSampleRates, num_channels \in LiveChannels :
        InitSession(TRUE, num_channels, sample_rate, AheadProgram)

NextLive ==
    \/ WriteAudio(BufferFrames, MaxLateCallbacks)
    \/ GenerateSamples
    \/ PollProgram
    \/ Produce
    \/ CheckFinished
    \/ IncrementTotalSamples
    \/ Recv
    \/ DropPlayerProxy

SpecAhead == InitAhead /\ [][NextLive]_vars

(***************************************************************************)
(* The two drivers on one program: the process renders the program with    *)
(* write_wav; a second process then plays the same program with            *)
(* get_stream at the same sample rate, with hardware buffers of 23 or 45   *)
(* frames (one or two full chunks of 22 frames and a chunk of one frame).  *)
(* log is kept from the first run to the second, with the event            *)
(* "play_live" between them, which holds the samples the first run made.   *)
(***************************************************************************)
DriverFrames == {23, 45}
DriverPrograms == {SirenProgram, NestedProgram}

InitDrivers ==
    \E code \in DriverPrograms : InitSession(FALSE, WAV_CHANNELS, WAV_SAMPLE_RATE, code)

\* the second process: Player::get_stream with the same program, on fresh thread-locals
PlayLive(Channels) ==
    /\ pc = "done"
    /\ ~player.sender
    /\ \E num_channels \in Channels :
          player' = NewPlayer(num_channels, player.sample_rate, TRUE)
    /\ CURRENT_SAMPLE_RATE' = 0
    /\ CURRENT_TIME' = Q(0)
    /\ CURRENT_SYNTHS' = NewRegistry
    /\ NEW_PROGRAMS' = << >>
    /\ futures' = <<NewFuture(futures[1].code, NoInstrument)>>
    /\ channel' = NewChannel(TRUE)
    /\ pc' = "idle"
    /\ i' = 0
    /\ num_samples' = 0
    /\ frames_left' = 0
    /\ pass' = 0
    /\ polled' = << >>
    /\ spawned' = << >>
    /\ log' = Append(log, [ev |-> "play_live", task |-> 0, pass |-> pass,
                            time |-> CURRENT_TIME, id |-> 0,
                            val |-> player.total_samples, end |-> Q(0)])
    /\ last_op' = "play_live"
    /\ UNCHANGED <<proxies, tracks, bc>>

NextDrivers ==
    \/ WriteWavAudio
    \/ WavDone
    \/ PlayLive(LiveChannels)
    \/ WriteAudio(DriverFrames, MaxLateCallbacks)
    \/ GenerateSamples
    \/ PollProgram
    \/ Produce
    \/ CheckFinished
    \/ IncrementTotalSamples
    \/ Recv
    \/ DropPlayerProxy

SpecDrivers == InitDrivers /\ [][NextDrivers]_vars

(***************************************************************************)
(* write_wav_audio on a Player of any positive sample rate: the rate is    *)
(* the constant WAV_SAMPLE_RATE in write_wav, and the sample rates below   *)
(* are values of that constant.  The passes of a session are counted up    *)
(* to MaxPasses.                                                           *)
(***************************************************************************)
MaxPasses == 12

OfflineSampleRates == {1, 1000, 1999, 2000, WAV_SAMPLE_RATE}

InitRates ==
    \E code \in LivePrograms, sample_rate \in OfflineSampleRates :
        InitSession(FALSE, WAV_CHANNELS, sample_rate, code)

GenerateSamplesUpTo(Passes) ==
    /\ pass < Passes
    /\ GenerateSamples

NextRates ==
    \/ WriteWavAudio
    \/ WavDone
    \/ GenerateSamplesUpTo(MaxPasses)
    \/ PollProgram
    \/ Produce
    \/ CheckFinished
    \/ IncrementTotalSamples

SpecRates == InitRates /\ [][NextRates]_vars

(***************************************************************************)
(* Note tokens parsed by MidiNote::try_from.  The tokens are all the       *)
(* strings of up to three of NoteChars, and the strings of four of         *)
(* LongTokenChars.  log holds the token and then the outcome.              *)
(***************************************************************************)
NoteChars ==
    {"A", "B", "C", "D", "E", "F", "G", "#", "b",
     "0", "1", "2", "3", "4", "5", "6", "7", "8", "9", "Z", "k", "p"}
LongTokenChars == {"A", "b", "4", "k"}

NoteTokens ==
    UNION {[1..n -> NoteChars] : n \in 0..3} \cup [1..4 -> LongTokenChars]

InitNotes ==
    /\ \E value \in NoteTokens : log = <<[ev |-> "token", val |-> value]>>
    /\ bc = NewBeatCounter(BeatSettings(60, FOUR_FOUR))
    /\ CURRENT_SAMPLE_RATE = 0
    /\ CURRENT_TIME = Q(0)
    /\ CURRENT_SYNTHS = NewRegistry
    /\ NEW_PROGRAMS = << >>
    /\ player = [num_channels |-> 1, sample_rate |-> 0, programs |-> << >>,
                 total_samples |-> 0, sender |-> FALSE, is_finished |-> FALSE]
    /\ futures = << >>
    /\ channel = NewChannel(FALSE)
    /\ pc = "client"
    /\ i = 0
    /\ num_samples = 0
    /\ frames_left = 0
    /\ proxies = {}
    /\ tracks = NoTracks
    /\ pass = 0
    /\ polled = << >>
    /\ spawned = << >>
    /\ last_op = "none"

\* MidiNote::parse
Parse ==
    /\ Len(log) = 1
    /\ \E result \in try_from(log[1].val) :
          log' = Append(log, [ev |-> "parse", val |-> result])
    /\ last_op' = "parse"
    /\ UNCHANGED <<CURRENT_SAMPLE_RATE, CURRENT_TIME, CURRENT_SYNTHS, NEW_PROGRAMS, player,
                   futures, channel, pc, i, num_samples, frames_left, proxies, tracks, bc, pass,
                   polled, spawned>>

NextNotes == Parse

SpecNotes == InitNotes /\ [][NextNotes]_vars

(***************************************************************************)
(* A Tracks on the real-time path and a controller thread that locks the   *)
(* shapes, writes them and unlocks.                                        *)
(***************************************************************************)
MaxSkips == 2

TrackShapes == {AudioShape("Sine", f, v) : f \in {0, 440}, v \in {0, 1}}
TrackCounts == {0, 2}
TrackSampleRates == {8000}

InitTracks ==
    /\ \E n \in TrackCounts, sample_rate \in TrackSampleRates :
          \E shapes \in [1..n -> TrackShapes] : tracks = Tracks_new(shapes, sample_rate)
    /\ bc = NewBeatCounter(BeatSettings(60, FOUR_FOUR))
    /\ CURRENT_SAMPLE_RATE = 0
    /\ CURRENT_TIME = Q(0)
    /\ CURRENT_SYNTHS = NewRegistry
    /\ NEW_PROGRAMS = << >>
    /\ player = [num_channels |-> 1, sample_rate |-> 0, programs |-> << >>,
                 total_samples |-> 0, sender |-> FALSE, is_finished |-> FALSE]
    /\ futures = << >>
    /\ channel = NewChannel(FALSE)
    /\ pc = "client"
    /\ i = 0
    /\ num_samples = 0
    /\ frames_left = 0
    /\ proxies = {}
    /\ pass = 0
    /\ polled = << >>
    /\ spawned = << >>
    /\ log = << >>
    /\ last_op = "none"

UnchangedButTracks ==
    UNCHANGED <<CURRENT_SAMPLE_RATE, CURRENT_TIME, CURRENT_SYNTHS, NEW_PROGRAMS, player,
                futures, channel, pc, i, num_samples, frames_left, proxies, bc, pass,
                polled, spawned, log>>

\* the controller: shapes_mutex.lock(), which waits until the mutex is free
ControllerLock ==
    /\ ~tracks.locked
    /\ tracks' = [tracks EXCEPT !.locked = TRUE]
    /\ last_op' = "lock"
    /\ UnchangedButTracks

\* the controller writes a shape through its guard
ControllerWrite(Shapes) ==
    /\ tracks.locked
    /\ \E k \in DOMAIN tracks.shapes, shape \in Shapes :
          tracks' = [tracks EXCEPT !.shapes[k] = shape]
    /\ last_op' = "write"
    /\ UnchangedButTracks

\* the controller drops its guard
ControllerUnlock ==
    /\ tracks.locked
    /\ tracks' = [tracks EXCEPT !.locked = FALSE]
    /\ last_op' = "unlock"
    /\ UnchangedButTracks

\* the real-time path calls Tracks::try_to_update; a call that had to wait
\* for the mutex would leave the path at "blocked"
TryToUpdate(Skips) ==
    /\ pc = "client"
    /\ IF try_lock(tracks) = "Blocked"
       THEN pc' = "blocked" /\ UNCHANGED tracks
       ELSE pc' = pc /\ tracks' = try_to_update(tracks, Skips)
    /\ last_op' = "try_to_update"
    /\ UNCHANGED <<CURRENT_SAMPLE_RATE, CURRENT_TIME, CURRENT_SYNTHS, NEW_PROGRAMS, player,
                   futures, channel, i, num_samples, frames_left, proxies, bc, pass,
                   polled, spawned, log>>

NextTracks ==
    \/ ControllerLock
    \/ ControllerWrite(TrackShapes)
    \/ ControllerUnlock
    \/ TryToUpdate(MaxSkips)

SpecTracks == InitTracks /\ [][NextTracks]_vars

(***************************************************************************)
(* A BeatCounter under any sequence of increment calls.  log keeps, per    *)
(* call, the length and the duration the call returned.                    *)
(***************************************************************************)
MaxIncrements == 3

BeatTempos == {60, 90, 120}
BeatSignatures == {THREE_FOUR, FOUR_FOUR}

InitBeats ==
    /\ \E bpm \in BeatTempos, time_signature \in BeatSignatures :
          bc = NewBeatCounter(BeatSettings(bpm, time_signature))
    /\ CURRENT_SAMPLE_RATE = 0
    /\ CURRENT_TIME = Q(0)
    /\ CURRENT_SYNTHS = NewRegistry
    /\ NEW_PROGRAMS = << >>
    /\ player = [num_channels |-> 1, sample_rate |-> 0, programs |-> << >>,
                 total_samples |-> 0, sender |-> FALSE, is_finished |-> FALSE]
    /\ futures = << >>
    /\ channel = NewChannel(FALSE)
    /\ pc = "client"
    /\ i = 0
    /\ num_samples = 0
    /\ frames_left = 0
    /\ proxies = {}
    /\ tracks = NoTracks
    /\ pass = 0
    /\ polled = << >>
    /\ spawned = << >>
    /\ log = << >>
    /\ last_op = "none"

\* BeatCounter::increment
Increment(Lengths, Calls) ==
    /\ Len(log) < Calls
    /\ \E length \in Lengths :
          /\ bc' = increment(bc, length)
          /\ log' = Append(log, [ev |-> "increment", length |-> length,
                                  val |-> duration_in_millis(bc.settings, length)])
    /\ last_op' = "increment"
    /\ UNCHANGED <<CURRENT_SAMPLE_RATE, CURRENT_TIME, CURRENT_SYNTHS, NEW_PROGRAMS, player,
                   futures, channel, pc, i, num_samples, frames_left, proxies, tracks, pass,
                   polled, spawned>>

NextBeats == Increment(Beats, MaxIncrements)

SpecBeats == InitBeats /\ [][NextBeats]_vars

(***************************************************************************)
(* BeatSettings under any sequence of duration_in_millis and               *)
(* measure_in_millis calls.  log keeps, per call, the length asked for and *)
(* the f64 the call returned.                                              *)
(***************************************************************************)
MaxQueries == 2

SettingsTempos == {55, 60, 110, 120}

InitSettings ==
    /\ \E bpm \in SettingsTempos, time_signature \in BeatSignatures :
          bc = NewBeatCounter(BeatSettings(bpm, time_signature))
    /\ CURRENT_SAMPLE_RATE = 0
    /\ CURRENT_TIME = Q(0)
    /\ CURRENT_SYNTHS = NewRegistry
    /\ NEW_PROGRAMS = << >>
    /\ player = [num_channels |-> 1, sample_rate |-> 0, programs |-> << >>,
                 total_samples |-> 0, sender |-> FALSE, is_finished |-> FALSE]
    /\ futures = << >>
    /\ channel = NewChannel(FALSE)
    /\ pc = "client"
    /\ i = 0
    /\ num_samples = 0
    /\ frames_left = 0
    /\ proxies = {}
    /\ tracks = NoTracks
    /\ pass = 0
    /\ polled = << >>
    /\ spawned = << >>
    /\ log = << >>
    /\ last_op = "none"

\* BeatSettings::duration_in_millis
DurationInMillis(Lengths, Calls) ==
    /\ Len(log) < Calls
    /\ \E length \in Lengths :
          log' = Append(log, [ev |-> "duration_in_millis", length |-> length,
                              val |-> duration_in_millis(bc.settings, length)])
    /\ last_op' = "duration_in_millis"
    /\ UNCHANGED <<CURRENT_SAMPLE_RATE, CURRENT_TIME, CURRENT_SYNTHS, NEW_PROGRAMS, player,
                   futures, channel, pc, i, num_samples, frames_left, proxies, tracks, bc, pass,
                   polled, spawned>>

\* BeatSettings::measure_in_millis
MeasureInMillis(Calls) ==
    /\ Len(log) < Calls
    /\ log' = Append(log, [ev |-> "measure_in_millis",
                            length |-> beat_unit(bc.settings.time_signature),
                            val |-> measure_in_millis(bc.settings)])
    /\ last_op' = "measure_in_millis"
    /\ UNCHANGED <<CURRENT_SAMPLE_RATE, CURRENT_TIME, CURRENT_SYNTHS, NEW_PROGRAMS, player,
                   futures, channel, pc, i, num_samples, frames_left, proxies, tracks, bc, pass,
                   polled, spawned>>

NextSettings ==
    \/ DurationInMillis(Beats, MaxQueries)
    \/ MeasureInMillis(MaxQueries)

SpecSettings == InitSettings /\ [][NextSettings]_vars

(***************************************************************************)
(* Claims about the voices and the registry.                               *)
(***************************************************************************)
Voices == CURRENT_SYNTHS.map

\* C1: remove_finished_synths (or any other step) takes a voice out of the
\* registry only if, before the step, the voice was inactive and its
\* amplitude was 0; an audible voice is never removed.
C1_RemovedOnlyWhenFinished ==
    [][\A id \in DOMAIN Voices :
          id \notin DOMAIN CURRENT_SYNTHS'.map =>
              /\ Voices[id].is_active = FALSE
              /\ Voices[id].volume = 0]_vars

\* remove_finished_synths has just removed a voice and kept an inactive one
\* that is still audible.
C1_Witness ==
    /\ last_op = "remove_finished_synths"
    /\ Cardinality(DOMAIN Voices) < CURRENT_SYNTHS.latest_id
    /\ \E id \in DOMAIN Voices : ~Voices[id].is_active /\ Voices[id].volume # 0

\* C2: across a step, a voice's amplitude changes by at most 1 and stays in
\* 0..255; a next() step moves it one unit toward the target volume when it
\* differs from the target, and leaves it when it does not.
C2_SlewRate ==
    [][\A id \in DOMAIN Voices \cap DOMAIN CURRENT_SYNTHS'.map :
          LET before == Voices[id]
              after == CURRENT_SYNTHS'.map[id]
              target == before.target.volume
          IN  /\ after.volume \in 0..U8_MAX
              /\ Abs(after.volume - before.volume) <= 1
              /\ last_op' = "next_sample" =>
                    IF before.volume = target
                    THEN after.volume = before.volume
                    ELSE Abs(target - after.volume) = Abs(target - before.volume) - 1]_vars

\* A voice has ramped all the way up to 255 and its target has then been
\* lowered: the next sample steps down from the top of the range.
C2_Witness ==
    /\ last_op = "next_sample"
    /\ \E id \in DOMAIN Voices :
          Voices[id].volume = U8_MAX - 1 /\ Voices[id].target.volume = 0

\* C6: dropping a handle sets is_active to FALSE and the target volume to 0
\* and changes nothing else: the voice stays in the registry with its
\* amplitude, phase, phase delta, frequency and waveform.  While an inactive
\* voice is audible it stays in the registry, and every sample steps it.
C6_DropFrame ==
    [][/\ last_op' = "drop" =>
            \E id \in proxies \ proxies' :
                /\ id \in DOMAIN Voices
                /\ CURRENT_SYNTHS' = [CURRENT_SYNTHS EXCEPT
                                         !.map[id].is_active = FALSE,
                                         !.map[id].target.volume = 0]
       /\ \A id \in DOMAIN Voices :
            (~Voices[id].is_active /\ Voices[id].volume > 0) =>
                /\ id \in DOMAIN CURRENT_SYNTHS'.map
                /\ last_op' = "next_sample" =>
                      CURRENT_SYNTHS'.map[id].volume = Voices[id].volume - 1]_vars

\* A handle has just been dropped on a voice that is audible and has a
\* moving phase: the voice is still registered.
C6_Witness ==
    /\ last_op = "drop"
    /\ \E id \in DOMAIN Voices :
          /\ id \notin proxies
          /\ ~Voices[id].is_active
          /\ Voices[id].volume > 0
          /\ Voices[id].pos_in_wave # Q(0)
          /\ Voices[id].target.frequency # 0

(***************************************************************************)
(* Claims about the scheduler.                                             *)
(***************************************************************************)
Range(seq) == {seq[k] : k \in DOMAIN seq}

Complete(fut) == fut.pc > Len(fut.code)

\* C3: is_finished is set, and the completion signal sent, only by a step
\* that starts with no task in the live list and none in the admission
\* queue and ends with a registry that holds no voice at all; every voice
\* the step took out of the registry was inactive with amplitude 0, and
\* every future ever registered has run to its end.
C3_FinishedOnlyWhenEmpty ==
    [][(player'.is_finished /\ ~player.is_finished) \/ channel'.sent > channel.sent =>
          /\ player.programs = << >>
          /\ player'.programs = << >>
          /\ NEW_PROGRAMS = << >>
          /\ DOMAIN CURRENT_SYNTHS'.map = {}
          /\ \A id \in DOMAIN Voices : ~Voices[id].is_active /\ Voices[id].volume = 0
          /\ \A t \in DOMAIN futures : Complete(futures[t])]_vars

\* The session has finished, and not in the pass in which its last task
\* ended: a pass went by with no task left and a voice still ramping down.
C3_Witness ==
    /\ player.is_finished
    /\ last_op \in {"Ok", "check_finished"}
    /\ CURRENT_SYNTHS.latest_id > 0
    /\ \A k \in DOMAIN log : log[k].pass + 1 < pass

\* C4: the completion signal is sent at most once, no send blocks and no
\* send fails; once is_finished is set it stays set and no later step
\* sends or puts anything in the channel.
C4_SignalOnce ==
    [][/\ channel'.sent <= 1
       /\ pc' # "blocked"
       /\ last_op' # "Err"
       /\ last_op' = "Ok" => channel.sent = 0 /\ channel'.sent = 1 /\ player'.is_finished
       /\ player.is_finished =>
             /\ player'.is_finished
             /\ channel'.sent = channel.sent
             /\ channel'.buf <= channel.buf]_vars

\* A live session has finished and a whole later callback has run its
\* passes while the signal was still in the channel, not yet received.
C4_Witness ==
    /\ player.sender
    /\ player.is_finished
    /\ channel.late >= 1
    /\ pc = "idle"
    /\ channel.buf = 1
    /\ channel.receiver = "waiting"

\* C5: the admission queue is empty after every poll; a task registered in
\* this pass has been polled in this pass, or stands in the live list after
\* the loop index, to be polled before the loop ends; when the samples of
\* the pass are produced every task registered in the pass has been polled.
C5_SpawnedPolledInPass ==
    [][/\ NEW_PROGRAMS' = << >>
       /\ \A t \in Range(spawned') :
             \/ t \in Range(polled')
             \/ /\ pc' = "execute_programs"
                /\ \E k \in (i' + 1)..Len(player'.programs) : player'.programs[k] = t
       /\ last_op' = "produce" => Range(spawned) \subseteq Range(polled)]_vars

\* The samples of a pass have been produced in which a task that was
\* itself registered in the pass registered another task, and the task
\* list was empty when the first of them was registered (its spawner, the
\* last task of the list, had ended).
C5_Witness ==
    /\ last_op = "produce"
    /\ \E a, b \in DOMAIN log :
          /\ log[a].ev = "start_program" /\ log[a].pass = pass
          /\ log[b].ev = "start_program" /\ log[b].pass = pass
          /\ log[b].task = log[a].id
          /\ Complete(futures[log[a].task])
          /\ log[b].id \in Range(polled)

\* the play_chord calls entered in the current pass, as observed
ChordCalls == {c \in Range(log) : c.ev = "play_chord" /\ c.pass = pass}

\* the tasks a chord call registered, in the order of registration
Siblings(c) ==
    LET regs == SelectSeq(log, LAMBDA e : e.ev = "start_program" /\ e.task = c.task
                                             /\ e.pass = c.pass)
    IN  [k \in DOMAIN regs |-> regs[k].id]

\* the voices of a chord call: the caller's, then one per sibling
ChordVoices(c) ==
    <<c.id>> \o [k \in DOMAIN Siblings(c) |-> futures[Siblings(c)[k]].inst.shape]

\* task t set voice id to note's frequency and to volume in this pass, at clock time
TurnedOn(t, id, note, volume, time) ==
    \E a, b \in DOMAIN log :
        /\ a < b
        /\ log[a].ev = "set_frequency" /\ log[a].task = t /\ log[a].id = id
        /\ log[a].val = MidiNote_frequency(note)
        /\ log[b].ev = "set_volume" /\ log[b].task = t /\ log[b].id = id
        /\ log[b].val = volume
        /\ log[a].pass = pass /\ log[b].pass = pass
        /\ log[a].time = time /\ log[b].time = time

\* C7: when the samples of a pass are produced, every play_chord call of N
\* notes entered in that pass has N distinct registered, active voices, the
\* caller's and one new voice per sibling task; in that pass and at the
\* clock value of the call, the caller has set its voice to the first
\* note's frequency and to max_volume, and the k-th sibling has set its
\* voice to the (k+1)-th note's frequency and to max_volume.  A voice whose
\* task is suspended in the wait of its note still has these targets.
C7_ChordVoicesOn ==
    [][last_op' = "produce" =>
          \A c \in ChordCalls :
              LET caller == futures[c.task]
                  notes == caller.code[c.val].notes
                  tasks == <<c.task>> \o Siblings(c)
                  voices == ChordVoices(c)
              IN  /\ Len(voices) = Len(notes)
                  /\ Cardinality(Range(voices)) = Len(notes)
                  /\ c.time = CURRENT_TIME
                  /\ \A k \in DOMAIN notes :
                        /\ voices[k] \in DOMAIN Voices
                        /\ Voices[voices[k]].is_active
                        /\ TurnedOn(tasks[k], voices[k], notes[k],
                                    caller.inst.max_volume, c.time)
                        /\ futures[tasks[k]].ph = 1 =>
                              /\ Voices[voices[k]].target.frequency =
                                    MidiNote_frequency(notes[k])
                              /\ Voices[voices[k]].target.volume = caller.inst.max_volume]_vars

\* The samples of a pass have been produced in which a chord of three
\* notes was entered; its three voices are sounding.
C7_Witness ==
    /\ last_op = "produce"
    /\ \E c \in ChordCalls :
          /\ Len(ChordVoices(c)) = 3
          /\ \A k \in 1..3 : Voices[ChordVoices(c)[k]].volume > 0

\* what the step has added to the log
NewEvents == {log'[k] : k \in (Len(log) + 1)..Len(log')}

\* the step has returned task t from the play_chord call at instruction k
ChordReturned(t, k) ==
    \E r \in NewEvents :
        r.ev = "return" /\ r.task = t /\ r.id = k /\ futures'[t].code[k].op = "play_chord"

\* C8: a step returns a task from a play_chord call exactly if it is a poll
\* of that task, made while the task is suspended inside the call in the
\* release gap of the first note, the last of the first note's waits, and
\* that wait has elapsed.  It does not return in the poll that enters the
\* call or resolves the first wait, and the sibling tasks play no part.
C8_ChordReturn ==
    [][\A t \in DOMAIN futures' :
          \A k \in DOMAIN futures'[t].code :
              ChordReturned(t, k) <=>
                  /\ t \in DOMAIN futures
                  /\ futures[t].pc = k
                  /\ futures[t].code[k].op = "play_chord"
                  /\ futures[t].ph = 3
                  /\ QGe(CURRENT_TIME, futures[t].end)
                  /\ last_op' = "poll"
                  /\ polled' = Append(polled, t)]_vars

\* A task has just returned from a play_chord call of several notes while
\* a sibling registered by the call has not run to its end.
C8_Witness ==
    /\ last_op = "poll"
    /\ \E r \in Range(log), c \in Range(log) :
          /\ r.ev = "return" /\ r.pass = pass /\ r.task = polled[Len(polled)]
          /\ c.ev = "play_chord" /\ c.task = r.task /\ c.val = r.id
          /\ Siblings(c) # << >>
          /\ \E k \in DOMAIN Siblings(c) : ~Complete(futures[Siblings(c)[k]])

(***************************************************************************)
(* Claims about timing.                                                    *)
(***************************************************************************)
\* C9: once the last play_note of the measure (quarter, half, eighth, eighth
\* in 4/4 at 60 BPM, instrument created at clock 0) has returned,
\* total_measures() is 1.0 and the call returned at the clock value that
\* lies exactly 4000 ms after the instrument's creation.
C9_ExactMeasure ==
    \A r \in Range(log) :
        (r.ev = "return" /\ r.task = 1 /\ r.id = Len(MeasureProgram)) =>
            /\ total_measures(futures[1].inst.beat_counter) = FromInt(1)
            /\ QSub(r.time, futures[1].inst.start_time) = Q(4000)

\* the sum of 64/length.divisor over the calls made
RECURSIVE SumOfTicks(_)
SumOfTicks(calls) ==
    IF calls = << >> THEN 0
    ELSE SumOfTicks(SubSeq(calls, 1, Len(calls) - 1))
             + 64 \div divisor(calls[Len(calls)].length)

\* the durations the calls returned, added up in f64 in the order of the calls
RECURSIVE SumOfDurations(_)
SumOfDurations(calls) ==
    IF calls = << >> THEN FZero
    ELSE FAdd(SumOfDurations(SubSeq(calls, 1, Len(calls) - 1)), calls[Len(calls)].val)

\* C10: after any sequence of increment calls the tick count is the sum of
\* 64/length.divisor over the calls, total_beats() is exactly the ticks
\* divided by 64/beat_unit.divisor, total_measures() is total_beats()
\* divided by beats_per_measure, and total_millis() equals the sum of the
\* durations the increment calls returned.
C10_ExactTotals ==
    LET time_signature == bc.settings.time_signature
    IN  /\ bc.sixty_fourth_beats = SumOfTicks(log)
        /\ FEqRat(total_beats(bc), bc.sixty_fourth_beats,
                  64 \div divisor(beat_unit(time_signature)))
        /\ total_measures(bc) = FDiv(total_beats(bc), beats_per_measure(time_signature))
        /\ total_millis(bc) = SumOfDurations(log)

\* the claim's formula in f64: (60000.0 / bpm) * (beat_unit.divisor / length.divisor)
DurationFormula(settings, length) ==
    FMul(FDiv(FromInt(60000), settings.bpm),
         FDiv(FromInt(divisor(beat_unit(settings.time_signature))), divisor(length)))

\* C11: every duration_in_millis(length) returned equals
\* (60000/bpm) * (beat_unit.divisor / length.divisor), is strictly positive
\* and is twice the duration at the doubled bpm; every measure_in_millis()
\* returned is beats_per_measure times the duration of the beat unit; at
\* 60 BPM in 4/4 a quarter is 1000, a half 2000, an eighth 500 and the
\* measure 4000.
C11_DurationFormula ==
    \A r \in Range(log) :
        LET settings == bc.settings
            time_signature == settings.time_signature
        IN  /\ r.ev = "duration_in_millis" =>
                  /\ r.val = DurationFormula(settings, r.length)
                  /\ r.val.m # << >>
                  /\ r.val = FMul(duration_in_millis(
                                      BeatSettings(2 * settings.bpm, time_signature),
                                      r.length),
                                  FromInt(2))
                  /\ (settings.bpm = 60 /\ time_signature = FOUR_FOUR) =>
                        FEqRat(r.val, 4000, divisor(r.length))
            /\ r.ev = "measure_in_millis" =>
                  /\ r.val = FMul(duration_in_millis(settings, beat_unit(time_signature)),
                                  FromInt(beats_per_measure(time_signature)))
                  /\ (settings.bpm = 60 /\ time_signature = FOUR_FOUR) =>
                        r.val = FromInt(4000)

(***************************************************************************)
(* Claims about the two drivers.                                           *)
(***************************************************************************)
\* the events of the offline run and of the live run that follows it
LiveStart == CHOOSE k \in DOMAIN log : log[k].ev = "play_live"
OfflineLog == SubSeq(log, 1, LiveStart - 1)
LiveLog == SubSeq(log, LiveStart + 1, Len(log))

\* the target-shape changes applied to voice id, in order
RECURSIVE ShapeChanges(_, _)
ShapeChanges(events, id) ==
    IF events = << >> THEN << >>
    ELSE LET r == Head(events)
         IN  (IF r.id = id /\ r.ev \in {"set_frequency", "set_volume", "drop"}
              THEN <<[ev |-> r.ev, val |-> r.val]>>
              ELSE << >>) \o ShapeChanges(Tail(events), id)

VoicesOf(events) == {r.id : r \in {e \in Range(events) : e.ev = "new_shape"}}

\* the largest buffer the hardware delivers
MaxFrames == CHOOSE n \in DriverFrames : \A m \in DriverFrames : m <= n

\* C12: when the live run of a program completes, it has applied to each
\* voice the sequence of frequency, volume and make-inactive changes the
\* offline run applied, and the samples it has produced differ from the
\* samples of the offline run by at most one buffer.
C12_DriversAgree ==
    (player.sender /\ last_op = "Ok") =>
        /\ VoicesOf(LiveLog) = VoicesOf(OfflineLog)
        /\ \A id \in VoicesOf(OfflineLog) :
              ShapeChanges(LiveLog, id) = ShapeChanges(OfflineLog, id)
        /\ Abs(player.total_samples + num_samples - log[LiveStart].val) <= MaxFrames

Waiting(fut) == fut.pc <= Len(fut.code) /\ fut.ph \in {1, 3}

\* C15: a Waiter made by Player::wait(ms) at clock t0 has the target
\* t0 + ms; a poll of a task suspended on a Waiter finds it Ready (the task
\* goes on) iff the clock is >= the target, and otherwise leaves the task
\* and its Waiter as they were; no poll changes the clock; and a Waiter
\* whose target the clock has reached keeps being Ready in every later
\* state of the session.
C15_Waiter ==
    [][/\ \A r \in Range(log) :
             (r.ev = "wait" /\ QGe(CURRENT_TIME, r.end)) => QGe(CURRENT_TIME', r.end)
       /\ last_op' = "poll" =>
             LET t == polled'[Len(polled')]
                 before == futures[t]
                 after == futures'[t]
             IN  /\ CURRENT_TIME' = CURRENT_TIME
                 /\ Waiting(before) =>
                       IF QGe(CURRENT_TIME, before.end)
                       THEN after.pc # before.pc \/ after.ph # before.ph
                       ELSE after = before
                 /\ Waiting(after) => QLt(CURRENT_TIME, after.end)
                 /\ (/\ Waiting(after)
                     /\ after.code[after.pc].op = "wait"
                     /\ after # before) =>
                       after.end = QAdd(CURRENT_TIME, after.code[after.pc].ms)]_vars

\* a wait that was polled Pending in a later pass and then found Ready
C15_Witness ==
    \E r \in Range(log), e \in Range(log) :
        /\ r.ev = "wait"
        /\ e.ev = "return"
        /\ e.task = r.task
        /\ futures[r.task].code[e.id].op = "wait"
        /\ e.pass >= r.pass + 2
        /\ QGe(e.time, r.end)
        /\ QLt(QSub(e.time, r.end), Q(1))

(***************************************************************************)
(* Claims about note tokens.                                               *)
(***************************************************************************)
NoteLetters == {"A", "B", "C", "D", "E", "F", "G"}
Accidentals == {"#", "b"}
OctaveDigits == {"0", "1", "2", "3", "4", "5", "6", "7", "8", "9"}

\* semitones of a letter above A within the octave that starts at C
LetterOffset(c) ==
    CASE c = "C" -> -9 [] c = "D" -> -7 [] c = "E" -> -5 [] c = "F" -> -4
      [] c = "G" -> -2 [] c = "A" -> 0 [] c = "B" -> 2

DigitValue(c) == CHOOSE d \in 0..9 : ToString(d) = c

\* what the claim says a token resolves to
Resolved(value) ==
    IF Len(value) \notin {2, 3} THEN Err("InvalidLength")
    ELSE IF value[1] \notin NoteLetters THEN Err("InvalidNoteCharacter")
    ELSE IF Len(value) = 3 /\ value[2] \notin Accidentals
    THEN Err("InvalidAccidentalCharacter")
    ELSE IF value[Len(value)] \notin OctaveDigits THEN Err("InvalidOctaveCharacter")
    ELSE Ok(69 + LetterOffset(value[1])
               + (IF Len(value) = 2 THEN 0 ELSE IF value[2] = "#" THEN 1 ELSE -1)
               + 12 * (DigitValue(value[Len(value)]) - 4))

\* C16: every token resolves to the MIDI number 69 + letter offset +
\* accidental offset + 12 * (octave - 4), a number that fits the signed
\* 8-bit note, or to the one error the order of the checks determines
\* (length, note letter, accidental, octave); A4 is 69, C4 60, A0 21, G9 127,
\* E#4 is F4 and Cb4 is B3.
C16_ParseTotal ==
    Len(log) = 2 =>
        LET value == log[1].val
            result == log[2].val
        IN  /\ result = Resolved(value)
            /\ result.ok => result.note \in I8_MIN..I8_MAX
            /\ value = <<"A", "4">> => result = Ok(69)
            /\ value = <<"C", "4">> => result = Ok(60)
            /\ value = <<"A", "0">> => result = Ok(21)
            /\ value = <<"G", "9">> => result = Ok(127)
            /\ value = <<"E", "#", "4">> => result = Ok(65)
            /\ value = <<"C", "b", "4">> => result = Ok(59)

(***************************************************************************)
(* Claims about Tracks.                                                    *)
(***************************************************************************)
\* C17: a call of try_to_update returns without waiting for the mutex;
\* called while the controller holds it, it leaves the shapes, the lock and
\* every synthesizer as they were; called while the mutex is free, it makes
\* the target of the synthesizer at each index the shared shape at that
\* index, the shapes the controller wrote last.
C17_TryToUpdate ==
    [][last_op' = "try_to_update" =>
             /\ pc' # "blocked"
             /\ tracks'.shapes = tracks.shapes
             /\ tracks'.locked = tracks.locked
             /\ IF tracks.locked
                THEN tracks'.synths = tracks.synths
                ELSE \A k \in DOMAIN tracks.synths :
                        get_target(tracks'.synths[k]) = tracks.shapes[k]]_vars

\* an update that was skipped under the controller's lock and applied after
\* the unlock: the targets are shapes the controller wrote
C17_Witness ==
    /\ last_op = "try_to_update"
    /\ tracks.skips >= 1
    /\ ~tracks.locked
    /\ Len(tracks.synths) = 2
    /\ get_target(tracks.synths[1]) = AudioShape("Sine", 440, 1)
    /\ get_target(tracks.synths[2]) = AudioShape("Sine", 0, 0)
    /\ tracks.synths[1].wave_delta_per_sample # Q(0)

\* C18: a voice whose target frequency is <= 0 has a phase delta per sample
\* of zero, and a next() step leaves its phase position where it was. The
\* code tests `frequency == 0.0` only: a negative frequency gives the
\* negative delta frequency / sample_rate and the phase moves below zero.
C18_SilentAtNonPositive ==
    [][\A id \in DOMAIN Voices \cap DOMAIN CURRENT_SYNTHS'.map :
          LET before == Voices[id]
              after == CURRENT_SYNTHS'.map[id]
          IN  after.target.frequency <= 0 =>
                  /\ after.wave_delta_per_sample = Q(0)
                  /\ (last_op' = "next_sample" /\ before.target = after.target)
                        => after.pos_in_wave = before.pos_in_wave]_vars

(***************************************************************************)
(* Claims about wait_for_beat.                                             *)
(***************************************************************************)
BeatOps == {"play_note", "play_note_without_release", "play_chord", "rest"}

\* the offset play_note, play_chord, play_note_without_release and rest pass
OffsetOf(ins) == IF ins.op \in {"play_note", "play_chord"} THEN Q(-PAUSE_MS) ELSE Q(0)

TicksPerMeasure(settings) ==
    beats_per_measure(settings.time_signature)
        * (64 \div divisor(beat_unit(settings.time_signature)))

\* the task is suspended on the Waiter that wait_for_beat created
InWaitForBeat(fut) ==
    /\ fut.pc <= Len(fut.code)
    /\ fut.code[fut.pc].op \in BeatOps
    /\ fut.ph = 1

\* the beat counter as it was when the instruction at pc was entered
CounterBefore(fut) ==
    [fut.inst.beat_counter EXCEPT
        !.sixty_fourth_beats = @ - sixty_fourth_beats(fut.code[fut.pc].length)]

OnMeasureBoundary(counter) ==
    counter.sixty_fourth_beats % TicksPerMeasure(counter.settings) = 0

\* the last suspension task t created
LastWait(t) ==
    log[CHOOSE k \in DOMAIN log :
            /\ log[k].ev = "wait" /\ log[k].task = t
            /\ \A j \in DOMAIN log : (log[j].ev = "wait" /\ log[j].task = t) => j <= k]

\* C19: a suspension created by wait_for_beat with the beat counter on a
\* measure boundary (tick 0 included) has the target start_time +
\* total_millis before the increment + duration(length) + offset, whatever
\* the clock was at the call; one created off a measure boundary has the
\* target clock at the call + duration(length) + offset.
C19_WaitTarget ==
    \A t \in DOMAIN futures :
        InWaitForBeat(futures[t]) =>
            LET fut == futures[t]
                ins == fut.code[fut.pc]
                before == CounterBefore(fut)
                call == LastWait(t)
                step == QAdd(ToQ(duration_in_millis(before.settings, ins.length)),
                             OffsetOf(ins))
            IN  /\ call.end = fut.end
                /\ IF OnMeasureBoundary(before)
                   THEN fut.end = QAdd(QAdd(fut.inst.start_time, ToQ(total_millis(before))),
                                       step)
                   ELSE fut.end = QAdd(call.time, step)

\* a task is suspended in a wait_for_beat that it entered on a measure
\* boundary after the first, with the clock behind the ideal timeline, and
\* it had earlier created a suspension off a measure boundary
C19_Witness ==
    \E t \in DOMAIN futures :
        /\ InWaitForBeat(futures[t])
        /\ OnMeasureBoundary(CounterBefore(futures[t]))
        /\ CounterBefore(futures[t]).sixty_fourth_beats > 0
        /\ QGt(QSub(LastWait(t).time, futures[t].inst.start_time),
               ToQ(total_millis(CounterBefore(futures[t]))))
        /\ \E r \in Range(log) :
              /\ r.ev = "wait" /\ r.task = t
              /\ r.end = QAdd(r.time, Q(2))

\* the ticks of the beat instructions among the first n of a task body
RECURSIVE TicksEntered(_, _)
TicksEntered(code, n) ==
    IF n = 0 THEN 0
    ELSE TicksEntered(code, n - 1)
            + (IF code[n].op \in BeatOps THEN sixty_fourth_beats(code[n].length) ELSE 0)

\* how many instructions of its body the task has entered wait_for_beat in
Entered(fut) ==
    IF fut.pc > Len(fut.code) THEN Len(fut.code)
    ELSE IF fut.ph >= 1 THEN fut.pc ELSE fut.pc - 1

\* the instructions whose only suspension is the one of wait_for_beat
SingleWaitOps == {"rest", "play_note_without_release"}

\* the return of the instruction the main task completed before log[k]
PreviousReturn(k) ==
    log[CHOOSE j \in 1..(k - 1) :
            /\ log[j].ev = "return" /\ log[j].task = 1
            /\ \A h \in (j + 1)..(k - 1) : ~(log[h].ev = "return" /\ log[h].task = 1)]

\* the main task created a suspension after entering the instruction that
\* returns at log[k]
Suspended(k) ==
    \E j \in 1..(k - 1) :
        /\ log[j].ev = "wait" /\ log[j].task = 1
        /\ \A h \in j..(k - 1) : ~(log[h].ev = "return" /\ log[h].task = 1)

\* the wait the claim computes for instruction p of the main task, entered
\* at clock now: the duration plus the offset, plus the correction on a
\* measure boundary
ComputedWait(p, now) ==
    LET fut == futures[1]
        ins == fut.code[p]
        before == [fut.inst.beat_counter EXCEPT
                      !.sixty_fourth_beats = TicksEntered(fut.code, p - 1)]
        step == QAdd(ToQ(duration_in_millis(before.settings, ins.length)), OffsetOf(ins))
        correction == QSub(ToQ(total_millis(before)), QSub(now, fut.inst.start_time))
    IN  IF OnMeasureBoundary(before) THEN QAdd(step, correction) ELSE step

\* C20: no suspension has a target earlier than the clock at the call that
\* created it, and the target of one created by wait_for_beat is later than
\* that clock; a negative correction at a measure boundary makes the wait
\* shorter than duration(length) + offset; a computed wait <= 0 creates no
\* suspension (the instruction returns at the clock it was entered at) and a
\* computed wait > 0 creates one; and the beat counter of the main task's
\* instrument holds the ticks of every note and rest entered, skipped waits
\* included.
C20_NeverBackwards ==
    /\ \A r \in Range(log) : r.ev = "wait" => QGe(r.end, r.time)
    /\ \A t \in DOMAIN futures :
          InWaitForBeat(futures[t]) =>
              LET fut == futures[t]
                  before == CounterBefore(fut)
                  call == LastWait(t)
                  step == QAdd(ToQ(duration_in_millis(before.settings,
                                                      fut.code[fut.pc].length)),
                               OffsetOf(fut.code[fut.pc]))
              IN  /\ QGt(call.end, call.time)
                  /\ (/\ OnMeasureBoundary(before)
                      /\ QGt(QSub(call.time, fut.inst.start_time),
                             ToQ(total_millis(before))))
                        => QLt(QSub(call.end, call.time), step)
    /\ futures[1].inst.beat_counter.sixty_fourth_beats
          = TicksEntered(futures[1].code, Entered(futures[1]))
    /\ \A k \in DOMAIN log :
          (/\ log[k].ev = "return" /\ log[k].task = 1
           /\ futures[1].code[log[k].id].op \in SingleWaitOps) =>
              LET entry == PreviousReturn(k)
                  ms == ComputedWait(log[k].id, entry.time)
              IN  IF QGt(ms, Q(0))
                  THEN /\ Suspended(k)
                       /\ QGe(log[k].time, QAdd(entry.time, ms))
                  ELSE /\ ~Suspended(k)
                       /\ log[k].time = entry.time

\* the main task has returned from a rest that it entered on a measure
\* boundary with the clock so far behind the ideal timeline that the
\* computed wait was negative: no suspension was created and the beat
\* counter holds the ticks of the rest
C20_Witness ==
    \E k \in DOMAIN log :
        /\ log[k].ev = "return" /\ log[k].task = 1
        /\ futures[1].code[log[k].id].op = "rest"
        /\ QLt(ComputedWait(log[k].id, PreviousReturn(k).time), Q(0))
        /\ ~Suspended(k)
        /\ futures[1].inst.beat_counter.sixty_fourth_beats
              >= TicksEntered(futures[1].code, log[k].id)
        /\ TicksEntered(futures[1].code, log[k].id - 1)
              % TicksPerMeasure(futures[1].inst.beat_counter.settings) = 0

(***************************************************************************)
(* Claims about play_note.                                                 *)
(***************************************************************************)
\* the index in the log of the last return of task t before log[k], 0 if none
ReturnBefore(t, k) ==
    IF \E j \in 1..(k - 1) : log[j].ev = "return" /\ log[j].task = t
    THEN CHOOSE j \in 1..(k - 1) :
            /\ log[j].ev = "return" /\ log[j].task = t
            /\ \A h \in (j + 1)..(k - 1) : ~(log[h].ev = "return" /\ log[h].task = t)
    ELSE 0

\* what task t did in the instruction that returns at log[k], the return included
CallEvents(t, k) ==
    LET sub == SubSeq(log, ReturnBefore(t, k) + 1, k)
    IN  SelectSeq(sub, LAMBDA e : e.task = t)

\* C21: a completed play_note has set the target frequency, then the target
\* volume max_volume, then suspended, then set the target volume to 0 at a
\* clock that has reached the first suspension's target, then suspended for
\* PAUSE_MS, and returned when that target was reached; a completed
\* play_note_without_release has set frequency and volume, suspended once
\* and returned, with no set_volume(0).
C21_PlayNoteOrder ==
    \A k \in DOMAIN log :
        (/\ log[k].ev = "return"
         /\ futures[log[k].task].code[log[k].id].op
                \in {"play_note", "play_note_without_release"}) =>
            LET t == log[k].task
                ins == futures[t].code[log[k].id]
                ev == CallEvents(t, k)
                voice == futures[t].inst.shape
            IN  /\ Len(ev) = IF ins.op = "play_note" THEN 6 ELSE 4
                /\ ev[1].ev = "set_frequency" /\ ev[1].id = voice
                /\ ev[1].val = MidiNote_frequency(ins.note)
                /\ ev[2].ev = "set_volume" /\ ev[2].id = voice
                /\ ev[2].val = futures[t].inst.max_volume
                /\ ev[3].ev = "wait"
                /\ IF ins.op = "play_note"
                   THEN /\ ev[4].ev = "set_volume" /\ ev[4].id = voice /\ ev[4].val = 0
                        /\ QGe(ev[4].time, ev[3].end)
                        /\ ev[5].ev = "wait"
                        /\ ev[5].end = QAdd(ev[5].time, Q(PAUSE_MS))
                        /\ ev[6].ev = "return"
                        /\ QGe(ev[6].time, ev[5].end)
                   ELSE /\ ev[4].ev = "return"
                        /\ QGe(ev[4].time, ev[3].end)

\* the beat counter of task t as it was when its instruction p was entered
CounterAt(t, p) ==
    LET fut == futures[t]
    IN  [fut.inst.beat_counter EXCEPT
            !.sixty_fourth_beats = @ - TicksEntered(fut.code, Entered(fut))
                                     + TicksEntered(fut.code, p - 1)]

Waits(events) == SelectSeq(events, LAMBDA e : e.ev = "wait")

\* C22: a completed play_note that was entered off a measure boundary has
\* requested two waits that add up to duration(length): one of
\* duration(length) - PAUSE_MS, then one of PAUSE_MS.
C22_WaitsAddUp ==
    \A k \in DOMAIN log :
        (/\ log[k].ev = "return"
         /\ futures[log[k].task].code[log[k].id].op = "play_note"
         /\ ~OnMeasureBoundary(CounterAt(log[k].task, log[k].id))) =>
            LET t == log[k].task
                ins == futures[t].code[log[k].id]
                duration == ToQ(duration_in_millis(futures[t].inst.beat_counter.settings,
                                                   ins.length))
                w == Waits(CallEvents(t, k))
            IN  /\ Len(w) = 2
                /\ QSub(w[1].end, w[1].time) = QSub(duration, Q(PAUSE_MS))
                /\ QSub(w[2].end, w[2].time) = Q(PAUSE_MS)
                /\ QAdd(QSub(w[1].end, w[1].time), QSub(w[2].end, w[2].time)) = duration

(***************************************************************************)
(* Claims about execute_programs.                                          *)
(***************************************************************************)
\* the live list without task t, order kept
Without(programs, t) == SelectSeq(programs, LAMBDA u : u # t)

IsPrefix(a, b) == Len(a) <= Len(b) /\ SubSeq(b, 1, Len(a)) = a

NoDuplicates(seq) == \A a, b \in DOMAIN seq : seq[a] = seq[b] => a = b

\* C23: a poll takes the first task of the live list that has not been
\* polled in this pass (all tasks before it have been polled, it and the
\* tasks after it have not), and leaves the other tasks in the list in
\* their order, with the admitted tasks after them; no other step changes
\* the list; when execute_programs returns, every task of the list has
\* been polled, and no task was polled twice in the pass.
C23_PolledOnceInOrder ==
    [][/\ last_op' = "poll" =>
             LET t == polled'[Len(polled')]
                 programs == player.programs
             IN  /\ polled' = Append(polled, t)
                 /\ t \notin Range(polled)
                 /\ \E k \in DOMAIN programs :
                       /\ programs[k] = t
                       /\ \A j \in 1..(k - 1) : programs[j] \in Range(polled)
                       /\ \A j \in k..Len(programs) : programs[j] \notin Range(polled)
                 /\ \/ IsPrefix(programs, player'.programs)
                    \/ IsPrefix(Without(programs, t), player'.programs)
                 /\ \A u \in Range(player'.programs) \ Range(programs) : u \notin Range(polled')
       /\ last_op' # "poll" => player'.programs = player.programs
       /\ last_op' = "produce" =>
             /\ Range(player.programs) \subseteq Range(polled)
             /\ NoDuplicates(polled)
             /\ SelectSeq(polled, LAMBDA u : u \in Range(player.programs))
                   = player.programs]_vars

\* in one pass a task was polled Ready and removed, and the task that
\* followed it in the list was polled next; a task polled earlier in the
\* pass is still in the list
C23_Witness ==
    /\ pc = "execute_programs"
    /\ \E k \in 1..(Len(polled) - 1) :
          /\ polled[k] \notin Range(player.programs)
          /\ \E j \in 1..(k - 1) : polled[j] \in Range(player.programs)

\* the tasks registered by the poll of this step, in the order of their
\* start_program calls
SpawnedByStep == SubSeq(spawned', Len(spawned) + 1, Len(spawned'))

\* the tasks at the end of the live list after this step, as many as were
\* registered by it
AdmittedByStep ==
    SubSeq(player'.programs, Len(player'.programs) - Len(SpawnedByStep) + 1,
           Len(player'.programs))

\* C24: the tasks that one poll registers are appended to the live list in
\* the order in which they were registered.  process_new_programs pops
\* NEW_PROGRAMS from its end, so several tasks of one poll are appended in
\* the reverse order.
C24_AdmittedInSpawnOrder ==
    [][last_op' = "poll" => AdmittedByStep = SpawnedByStep]_vars

\* the future has run to its end: the poll that got it there returned Ready
Ended(fut) == fut.pc > Len(fut.code)

PositionIn(programs, t) == CHOOSE k \in DOMAIN programs : programs[k] = t

\* C25: the polled task is in the live list; if its poll returned Ready it
\* is not in the list after the step, and if it returned Pending it is
\* still in the list at the position it had; a task that is not in the
\* list never enters it again, so it is never polled again; and every task
\* that is in the list when execute_programs returns, the tasks left
\* Pending by the pass before included, has been polled in this pass.
C25_ReadyRemovedPendingKept ==
    [][/\ last_op' = "poll" =>
             LET t == polled'[Len(polled')]
             IN  /\ t \in Range(player.programs)
                 /\ IF Ended(futures'[t])
                    THEN t \notin Range(player'.programs)
                    ELSE /\ t \in Range(player'.programs)
                         /\ PositionIn(player'.programs, t) = PositionIn(player.programs, t)
       /\ \A t \in DOMAIN futures :
             t \notin Range(player.programs) => t \notin Range(player'.programs)
       /\ last_op' = "produce" =>
             \A t \in Range(player.programs) : t \in Range(polled) /\ ~Ended(futures[t])]_vars

\* a task that was left Pending in an earlier pass has been polled again,
\* has returned Ready and is gone from the list, in which another task stays
C25_Witness ==
    /\ last_op = "poll"
    /\ player.programs # << >>
    /\ LET t == polled[Len(polled)]
       IN  /\ t \notin Range(player.programs)
           /\ Ended(futures[t])
           /\ \E r \in Range(log) : r.task = t /\ r.ev = "wait" /\ r.pass < pass

(***************************************************************************)
(* Claims about the handle's setters.                                      *)
(***************************************************************************)
\* what neither setter touches in a voice
Untouched(before, after) ==
    /\ after.pos_in_wave = before.pos_in_wave
    /\ after.volume = before.volume
    /\ after.is_active = before.is_active
    /\ after.target.waveform = before.target.waveform
    /\ after.sample_rate = before.sample_rate

\* C26: a set_frequency step changes at most one voice of the registry, and
\* in it only the target frequency and the phase delta, which becomes the
\* delta of the new frequency; a set_volume step changes at most one voice,
\* and in it only the target volume; phase position, amplitude, is_active
\* and waveform of every voice, the set of voices and the registry's
\* counters are unchanged; through a handle whose id is not in the registry
\* either call leaves the registry as it was.
C26_SetterFrame ==
    [][/\ last_op' \in {"set_frequency", "set_volume"} =>
             /\ DOMAIN CURRENT_SYNTHS'.map = DOMAIN Voices
             /\ CURRENT_SYNTHS'.total_samples = CURRENT_SYNTHS.total_samples
             /\ CURRENT_SYNTHS'.latest_id = CURRENT_SYNTHS.latest_id
             /\ \A id \in DOMAIN Voices : Untouched(Voices[id], CURRENT_SYNTHS'.map[id])
             /\ \E id \in DOMAIN Voices :
                   \A other \in DOMAIN Voices \ {id} :
                       CURRENT_SYNTHS'.map[other] = Voices[other]
             /\ \A id \in DOMAIN Voices :
                   LET before == Voices[id]
                       after == CURRENT_SYNTHS'.map[id]
                   IN  IF last_op' = "set_frequency"
                       THEN /\ after.target.volume = before.target.volume
                            /\ after.wave_delta_per_sample =
                                  IF after.target.frequency = 0 THEN Q(0)
                                  ELSE Rat(after.target.frequency, after.sample_rate)
                       ELSE /\ after.target.frequency = before.target.frequency
                            /\ after.wave_delta_per_sample = before.wave_delta_per_sample
       /\ last_op' \in {"set_frequency_absent", "set_volume_absent"} =>
             CURRENT_SYNTHS' = CURRENT_SYNTHS]_vars

\* set_frequency has just been called with two voices in the registry, both
\* audible and away from the start of their wave, one of them inactive, and
\* the voices have different target frequencies
C26_Witness ==
    /\ last_op = "set_frequency"
    /\ Cardinality(DOMAIN Voices) = 2
    /\ \A id \in DOMAIN Voices : Voices[id].pos_in_wave # Q(0) /\ Voices[id].volume # 0
    /\ \E id \in DOMAIN Voices : ~Voices[id].is_active
    /\ \E a, b \in DOMAIN Voices : Voices[a].target.frequency # Voices[b].target.frequency

(***************************************************************************)
(* Claims about notes that do not resolve.                                 *)
(***************************************************************************)
\* the poll of this step ended in a panic
PollPanics == last_op' = "poll" /\ pc' = "panicked"

\* C27: when a poll of the task panics in play_note or play_chord because
\* a note does not resolve, the call has had no effect: the registry is
\* as it was before the poll (no target changed, no voice created), no
\* task was spawned, and the instrument with its beat counter is unchanged.
\* play_chord duplicates the instrument for a sibling before it resolves
\* that sibling's note, and resolves the first note after the loop that
\* spawns the siblings.
C27_FailureBeforeEffects ==
    [][PollPanics =>
          LET t == polled'[Len(polled')]
          IN  /\ futures[t].code[futures'[t].pc].op \in {"play_note", "play_chord"}
              /\ CURRENT_SYNTHS' = CURRENT_SYNTHS
              /\ Len(futures') = Len(futures)
              /\ NEW_PROGRAMS' = NEW_PROGRAMS
              /\ spawned' = spawned
              /\ futures'[t].inst = futures[t].inst]_vars

(***************************************************************************)
(* Claims about the clock within a pass.                                   *)
(***************************************************************************)
\* C28: a poll leaves the clock as it is, everything the polled task does
\* happens at that clock, and a Waiter it creates for wait(ms) has the
\* target clock + ms; all that tasks did in one pass, tasks admitted during
\* the pass included, happened at one clock value; and the clock changes
\* only in increment_total_samples, after the completion check that follows
\* the production of the pass's samples, when every task of the list has
\* been polled.
C28_ClockFixedInPass ==
    [][/\ last_op' = "poll" =>
             LET t == polled'[Len(polled')]
                 after == futures'[t]
             IN  /\ CURRENT_TIME' = CURRENT_TIME
                 /\ \A e \in NewEvents : e.time = CURRENT_TIME /\ e.pass = pass
                 /\ (/\ after # futures[t]
                     /\ after.pc <= Len(after.code)
                     /\ after.code[after.pc].op = "wait") =>
                       after.end = QAdd(CURRENT_TIME, after.code[after.pc].ms)
       /\ \A a, b \in Range(log') : a.pass = b.pass => a.time = b.time
       /\ CURRENT_TIME' # CURRENT_TIME =>
             /\ pc = "increment_total_samples"
             /\ last_op' = "increment_total_samples"
             /\ Range(player.programs) \subseteq Range(polled)
       /\ (pc' = "increment_total_samples" /\ pc # pc') => pc = "check_finished"
       /\ (pc' = "check_finished" /\ pc # pc') =>
             pc = "execute_programs" /\ last_op' = "produce"]_vars

\* in a pass after the first, at a clock other than 0, a task that was
\* admitted during the pass has been polled after its spawner and has
\* created a suspension
C28_Witness ==
    /\ last_op = "poll"
    /\ CURRENT_TIME # Q(0)
    /\ Len(polled) >= 2
    /\ polled[Len(polled)] \in Range(spawned)
    /\ \E a, b \in Range(log) :
          /\ a.pass = pass /\ b.pass = pass
          /\ a.task # b.task
          /\ b.task = polled[Len(polled)]
          /\ b.ev = "wait"

(***************************************************************************)
(* Claims about a voice whose handle has been dropped.                     *)
(***************************************************************************)
\* the step is a completion check, or the call of remove_finished_synths
CompletionCheck ==
    last_op' \in {"remove_finished_synths", "check_finished", "Ok", "Err", "Blocked"}

Max(a, b) == IF a >= b THEN a ELSE b

\* C29: a voice that is inactive (its handle has been dropped) has the
\* target volume 0 and an amplitude of at most 255; while it is in the
\* registry it stays inactive with target volume 0 and its amplitude never
\* increases; every produced sample lowers its amplitude by 1 until it is 0,
\* so it is 0 at most 255 samples after the drop; a completion check
\* removes it if its amplitude is 0 and keeps it otherwise; and no other
\* step removes it.
C29_DroppedVoiceFades ==
    [][\A id \in DOMAIN Voices :
          ~Voices[id].is_active =>
              LET before == Voices[id]
                  produced == CURRENT_SYNTHS'.total_samples - CURRENT_SYNTHS.total_samples
              IN  /\ before.target.volume = 0
                  /\ before.volume \in 0..U8_MAX
                  /\ IF id \in DOMAIN CURRENT_SYNTHS'.map
                     THEN LET after == CURRENT_SYNTHS'.map[id]
                          IN  /\ ~after.is_active
                              /\ after.target.volume = 0
                              /\ after.volume = Max(before.volume - produced, 0)
                              /\ ~(CompletionCheck /\ before.volume = 0)
                     ELSE CompletionCheck /\ before.volume = 0]_vars

\* a voice that was dropped at amplitude 255 has reached amplitude 0 with
\* the 255th sample after the drop and is still registered: the next
\* completion check removes it
C29_Witness ==
    /\ last_op = "next_sample"
    /\ CURRENT_SYNTHS.total_samples = 2 * U8_MAX
    /\ \E id \in DOMAIN Voices :
          /\ ~Voices[id].is_active
          /\ Voices[id].volume = 0

\* ---- The mutexes of Instrument (instrument.rs) ----
\* Each method of Instrument is read as the sequence of its mutex operations
\* and suspension points.  A guard lives until the end of the block or of the
\* statement that took it.  Tasks whose Instrument values are clones of one
\* another (same inst) share both mutexes; a duplicate has mutexes of its own.

MutexOp(op, mutex) == [op |-> op, mutex |-> mutex]

\* a guard taken and dropped in one block or statement
Guarded(mutex) == <<MutexOp("try_lock", mutex), MutexOp("drop", mutex)>>

\* Instrument::wait_for_beat with a guard that lives to the end of the function
wait_for_beat_mutexes_HeldAcross ==
    <<MutexOp("try_lock", "beat_counter"), MutexOp("await_if_positive", "none"),
      MutexOp("drop", "beat_counter")>>

\* Instrument::wait_for_beat: the block "let ms = { ... }" holds the beat
\* counter; Player::wait(ms) is awaited after it, and only if ms > 0.0
wait_for_beat_mutexes ==
    Guarded("beat_counter") \o <<MutexOp("await_if_positive", "none")>>

\* Instrument::play_note_impl: the first block holds the voice handle while the
\* note is resolved (a note that does not resolve panics there); the release
\* takes the handle again for one statement and awaits the release gap
play_note_impl_mutexes(resolves, release) ==
    IF ~resolves
    THEN <<MutexOp("try_lock", "shape"), MutexOp("panic", "none")>>
    ELSE Guarded("shape") \o wait_for_beat_mutexes
         \o (IF release THEN Guarded("shape") \o <<MutexOp("await", "none")>> ELSE << >>)

\* Instrument::rest
rest_mutexes == Guarded("shape") \o wait_for_beat_mutexes

\* Instrument::skip and Instrument::total_measures
beat_counter_mutexes == Guarded("beat_counter")

\* Instrument::duplicate: one statement per mutex
duplicate_mutexes == Guarded("shape") \o Guarded("beat_counter")

\* Instrument::play_chord with two notes: one duplicate for the sibling, then
\* play_note for the first note
play_chord_mutexes == duplicate_mutexes \o play_note_impl_mutexes(TRUE, TRUE)

InstrumentCalls ==
    {"play_note", "play_note_unresolvable", "play_note_without_release", "play_chord",
     "rest", "skip", "total_measures"}

MutexesOf(call) ==
    CASE call = "play_note" -> play_note_impl_mutexes(TRUE, TRUE)
      [] call = "play_note_unresolvable" -> play_note_impl_mutexes(FALSE, TRUE)
      [] call = "play_note_without_release" -> play_note_impl_mutexes(TRUE, FALSE)
      [] call = "play_chord" -> play_chord_mutexes
      [] call = "rest" -> rest_mutexes
      [] call = "skip" -> beat_counter_mutexes
      [] call = "total_measures" -> beat_counter_mutexes

\* Mutex::try_lock on the mutex of one Instrument: it fails while any task
\* that shares the mutex holds a guard
Instrument_try_lock(tasks, inst, mutex) ==
    IF \E u \in DOMAIN tasks : tasks[u].inst = inst /\ mutex \in tasks[u].held
    THEN "WouldBlock"
    ELSE "Ok"

\* one poll of task t, from where it stands to its next suspension, its end,
\* or a panic; no_wait says whether the waits computed in this poll come out as ms <= 0
RECURSIVE PollMutexes(_, _, _)
PollMutexes(tasks, t, no_wait) ==
    LET task == tasks[t]
    IN  IF task.pc > Len(task.code)
        THEN [tasks |-> tasks, st |-> "Ready"]
        ELSE LET ins == task.code[task.pc]
                 next == [tasks EXCEPT ![t].pc = @ + 1]
             IN  CASE ins.op = "try_lock" ->
                        IF Instrument_try_lock(tasks, task.inst, ins.mutex) = "Ok"
                        THEN PollMutexes([next EXCEPT ![t].held = @ \cup {ins.mutex}], t, no_wait)
                        ELSE [tasks |-> tasks, st |-> "WouldBlock"]
                   [] ins.op = "drop" ->
                        PollMutexes([next EXCEPT ![t].held = @ \ {ins.mutex}], t, no_wait)
                   [] ins.op = "await_if_positive" ->
                        IF no_wait
                        THEN PollMutexes(next, t, no_wait)
                        ELSE [tasks |-> [tasks EXCEPT ![t].waiting = TRUE], st |-> "Pending"]
                   [] ins.op = "await" ->
                        [tasks |-> [tasks EXCEPT ![t].waiting = TRUE], st |-> "Pending"]
                   [] ins.op = "panic" ->
                        [tasks |-> tasks, st |-> "panic"]

\* two tasks, each making two calls; the second task works on a clone of the
\* first task's Instrument (1) or on a duplicate of it (2)
TaskIds == {1, 2}
InstrumentsOf == {<<1, 1>>, <<1, 2>>}
CallSequences == [{1, 2} -> InstrumentCalls]

\* Player::execute_programs polls one task; a task that waits is polled again
\* with its Waiter either still pending or ready
PollTask ==
    /\ pc = "execute_programs"
    /\ \E t \in DOMAIN futures, ready \in BOOLEAN, no_wait \in BOOLEAN :
          /\ futures[t].pc <= Len(futures[t].code)
          /\ IF futures[t].waiting /\ ~ready
             THEN /\ last_op' = "Pending"
                  /\ UNCHANGED <<futures, pc>>
             ELSE LET resumed == IF futures[t].waiting
                                 THEN [futures EXCEPT ![t].waiting = FALSE, ![t].pc = @ + 1]
                                 ELSE futures
                      r == PollMutexes(resumed, t, no_wait)
                  IN  /\ futures' = r.tasks
                      /\ last_op' = r.st
                      /\ pc' = IF r.st \in {"WouldBlock", "panic"} THEN "panicked" ELSE pc
    /\ UNCHANGED <<CURRENT_SAMPLE_RATE, CURRENT_TIME, CURRENT_SYNTHS, NEW_PROGRAMS, player,
                   channel, i, num_samples, frames_left, proxies, tracks, bc, pass,
                   polled, spawned, log>>

InitLocks ==
    /\ \E insts \in InstrumentsOf, calls \in [TaskIds -> CallSequences] :
          futures = [t \in TaskIds |->
                       [inst |-> insts[t],
                        code |-> MutexesOf(calls[t][1]) \o MutexesOf(calls[t][2]),
                        pc |-> 1, held |-> {}, waiting |-> FALSE]]
    /\ CURRENT_SAMPLE_RATE = 0
    /\ CURRENT_TIME = Q(0)
    /\ CURRENT_SYNTHS = NewRegistry
    /\ NEW_PROGRAMS = << >>
    /\ player = [num_channels |-> 1, sample_rate |-> 0, programs |-> << >>,
                 total_samples |-> 0, sender |-> FALSE, is_finished |-> FALSE]
    /\ channel = NewChannel(FALSE)
    /\ pc = "execute_programs"
    /\ i = 0
    /\ num_samples = 0
    /\ frames_left = 0
    /\ proxies = {}
    /\ tracks = [shapes |-> << >>, locked |-> FALSE]
    /\ bc = NewBeatCounter(BeatSettings(60, FOUR_FOUR))
    /\ pass = 0
    /\ polled = << >>
    /\ spawned = << >>
    /\ log = << >>
    /\ last_op = "none"

NextLocks == PollTask

SpecLocks == InitLocks /\ [][NextLocks]_vars

\* C30: under the cooperative scheduler no task that is suspended or has ended
\* holds a guard of an Instrument mutex, and no try_lock of Instrument fails,
\* whatever the order in which the tasks are polled and whether or not their
\* Instruments share the mutexes.
C30_NoGuardAcrossAwait ==
    /\ last_op # "WouldBlock"
    /\ pc # "panicked" => \A t \in DOMAIN futures : futures[t].held = {}

\* two tasks on clones of one Instrument are both suspended after each has
\* taken the shared beat counter
C30_Witness ==
    /\ pc = "execute_programs"
    /\ \E t, u \in DOMAIN futures :
          /\ t # u
          /\ futures[t].inst = futures[u].inst
          /\ futures[t].waiting /\ futures[u].waiting
          /\ \E k \in 1..futures[t].pc : futures[t].code[k] = MutexOp("try_lock", "beat_counter")
          /\ \E k \in 1..futures[u].pc : futures[u].code[k] = MutexOp("try_lock", "beat_counter")

\* the drift of an instrument: total_millis - (clock - start_time)
Drift(settings, ticks, start_time, now) ==
    QSub(ToQ(total_millis([settings |-> settings, sixty_fourth_beats |-> ticks])),
         QSub(now, start_time))

\* the log positions at which a call of skip has acted
Skips == {k \in 2..Len(log) : log[k].ev = "skip" /\ log[k - 1].ev = "skip_entered"}

SettingsOf(t) == futures[t].inst.beat_counter.settings

\* C31: every call of skip advances the beat counter by its length, moves
\* start_time back by the duration of that length, and leaves the drift of
\* the instrument as it was.
C31_SkipKeepsDrift ==
    \A k \in Skips :
        LET before == log[k - 1]
            after == log[k]
            settings == SettingsOf(after.task)
            length == futures[after.task].code[after.id].length
        IN  /\ after.val = before.val + sixty_fourth_beats(length)
            /\ after.end = QSub(before.end, ToQ(duration_in_millis(settings, length)))
            /\ Drift(settings, after.val, after.end, after.time)
                 = Drift(settings, before.val, before.end, before.time)

\* the log positions at which play_note, play_note_without_release,
\* play_chord or rest returned
BeatReturns ==
    {k \in DOMAIN log :
        /\ log[k].ev = "return"
        /\ futures[log[k].task].code[log[k].id].op \in BeatOps}

\* clock - start_time of the instrument of the task of event e, at e
Elapsed(e) == QSub(e.time, futures[e.task].inst.start_time)

\* total_millis of the beat counter with which the call of event e returned
Theoretical(e) == total_millis(CounterAt(e.task, e.id + 1))

\* C32: wherever play_note, play_note_without_release, play_chord or rest
\* returns, the clock is at or past the instrument's theoretical timeline:
\* clock - start_time >= total_millis of its beat counter.
C32_NeverAhead ==
    \A k \in BeatReturns :
        FLeRat(Theoretical(log[k]), Elapsed(log[k]).n, Elapsed(log[k]).d)

\* the log positions at which play_chord started a sibling
SiblingStarts == {k \in DOMAIN log : log[k].ev = "start_program"}

\* the entry of the play_chord call that started the sibling of log[k]
ChordOf(k) ==
    LET calls == {j \in 1..k : log[j].ev = "play_chord" /\ log[j].task = log[k].task}
    IN  log[CHOOSE j \in calls : \A h \in calls : h <= j]

\* C33: the beat counter of the instrument that calls play_chord holds one
\* length for each call it has entered, however many notes the chords have;
\* every sibling has the caller's start_time and a counter of its own, which
\* is the caller's counter as it was before the call, advanced by one length
\* once the sibling has entered its note.
C33_ChordAdvancesOneLength ==
    /\ futures[1].inst.beat_counter.sixty_fourth_beats
         = TicksEntered(futures[1].code, Entered(futures[1]))
    /\ \A k \in SiblingStarts :
          LET caller == futures[log[k].task]
              sibling == futures[log[k].id]
              p == ChordOf(k).val
              length == caller.code[p].length
          IN  /\ caller.code[p].op = "play_chord"
              /\ sibling.inst.start_time = caller.inst.start_time
              /\ sibling.inst.beat_counter.settings = caller.inst.beat_counter.settings
              /\ sibling.inst.beat_counter.sixty_fourth_beats
                   = TicksEntered(caller.code, p - 1)
                       + (IF Entered(sibling) >= 1 THEN sixty_fourth_beats(length) ELSE 0)

\* the main task has returned from a chord of three notes that it entered
\* with a counter above 0, and both siblings have played their notes
C33_Witness ==
    \E k, h \in SiblingStarts :
        /\ k # h
        /\ log[k].task = 1 /\ log[h].task = 1
        /\ ChordOf(k) = ChordOf(h)
        /\ TicksEntered(futures[1].code, ChordOf(k).val - 1) > 0
        /\ futures[1].pc > ChordOf(k).val
        /\ futures[log[k].id].pc > 1 /\ futures[log[h].id].pc > 1
        /\ futures[1].inst.beat_counter.sixty_fourth_beats
             >= TicksEntered(futures[1].code, ChordOf(k).val)

====
